---------------------------- MODULE Spec2Model ----------------------------
(***************************************************************************)
(* Retrieval and context-assembly engine of the agent:                     *)
(*   parse_stack_trace -> get_relevant_docs -> build_context               *)
(* (src/agent/context_builder.py) and the composed resolve_error           *)
(* (src/agent/resolver.py), which calls its own copies of the three.       *)
(*                                                                         *)
(* Representation.                                                         *)
(*   - A Python str that the code inspects (a path, a file name) is a      *)
(*     sequence of one-character strings: <<"s","/","a",".","p","y">>.     *)
(*   - page_content is [id, nlines, linelen]: a text of nlines lines       *)
(*     (what split('\n') returns), each linelen characters long; id tells  *)
(*     different texts apart.                                              *)
(*   - metadata is a function whose DOMAIN is the set of keys present.     *)
(*   - None as a line number is NoneLine (-1).                             *)
(*   - A float score is the exact rational <<num, den>>; an index          *)
(*     distance is an integer number of tenths.                            *)
(***************************************************************************)
EXTENDS Integers, Sequences, FiniteSets, TLC

VARIABLES
    entry,              \* which code is run, see the state machine below
    trace,              \* the raw trace, as a sequence of trace items
    store,              \* the documents held by the vector store, in storage order
    pc,                 \* position of the caller
    stack_info,         \* result of parse_stack_trace
    all_candidates,     \* get_relevant_docs: deduplicated batched candidates
    seen_doc_paths,     \* get_relevant_docs: path keys already recorded
    exact_matches,      \* get_relevant_docs: sequence of <<doc, score>>
    semantic_matches,   \* get_relevant_docs: sequence of <<doc, score>>
    ref_i,              \* get_relevant_docs: index of the next reference
    log,                \* per reference: how it was handled
    queries,            \* the queries issued to the index so far
    search_query,       \* text of the batched query (sequence of file names)
    index_memo,         \* what the index answered to each query text
    all_documents,      \* result of get_relevant_docs
    max_tokens,         \* budget passed to build_context
    result,             \* what the caller got back
    runs,               \* how many times the caller runs the code on these inputs
    run,                \* number of the current run
    first_result,       \* what the first run returned
    total_lines,        \* split_into_chunks: len(content.split('\n'))
    chunk_size,         \* split_into_chunks: lines per chunk
    chunk_overlap,      \* split_into_chunks: lines shared by two chunks
    start,              \* split_into_chunks: index of the next chunk's first line
    chunks,             \* split_into_chunks: sequence of <<start_line, end_line>>
    documents           \* extract_python_files: the documents of the file

indexer_vars == << total_lines, chunk_size, chunk_overlap, start, chunks,
                   documents >>

vars == << entry, trace, store, pc, stack_info, all_candidates,
           seen_doc_paths, exact_matches, semantic_matches, ref_i, log,
           queries, search_query, index_memo, all_documents, max_tokens,
           result, runs, run, first_result, indexer_vars >>

----------------------------------------------------------------------------
(* Python str and pathlib.PurePosixPath, on sequences of characters.       *)

NoneLine == -1

Max(a, b) == IF a >= b THEN a ELSE b
Min(a, b) == IF a <= b THEN a ELSE b

RECURSIVE Str(_)
\* The TLA+ string spelled by a sequence of characters.
Str(s) == IF s = << >> THEN "" ELSE s[1] \o Str(Tail(s))

UpperLetters == << "A","B","C","D","E","F","G","H","I","J","K","L","M",
                   "N","O","P","Q","R","S","T","U","V","W","X","Y","Z" >>
LowerLetters == << "a","b","c","d","e","f","g","h","i","j","k","l","m",
                   "n","o","p","q","r","s","t","u","v","w","x","y","z" >>

LowerChar(c) ==
    IF \E i \in 1..Len(UpperLetters) : UpperLetters[i] = c
    THEN LowerLetters[CHOOSE i \in 1..Len(UpperLetters) : UpperLetters[i] = c]
    ELSE c

\* str.lower()
Lower(s) == [i \in 1..Len(s) |-> LowerChar(s[i])]

\* str.replace("\\", "/")
ReplaceBackslash(s) == [i \in 1..Len(s) |-> IF s[i] = "\\" THEN "/" ELSE s[i]]

\* str.endswith(t)
EndsWith(s, t) ==
    /\ Len(t) <= Len(s)
    /\ SubSeq(s, Len(s) - Len(t) + 1, Len(s)) = t

\* t in s
Contains(s, t) ==
    \E i \in 1..(Len(s) - Len(t) + 1) : SubSeq(s, i, i + Len(t) - 1) = t

\* The index of the first "/" of p, Len(p) + 1 if there is none.
FirstSlash(p) ==
    IF \E i \in 1..Len(p) : p[i] = "/"
    THEN CHOOSE i \in 1..Len(p) : p[i] = "/" /\ \A j \in 1..(i - 1) : p[j] # "/"
    ELSE Len(p) + 1

\* A segment is kept unless it is empty or ".".
KeptPart(seg) == IF seg = << >> \/ seg = << "." >> THEN << >> ELSE << seg >>

RECURSIVE Parts(_)
RECURSIVE PartsFrom(_, _)
\* The segments of a path between "/", without the empty and the "." ones.
Parts(p) == IF p = << >> THEN << >> ELSE PartsFrom(p, FirstSlash(p))
PartsFrom(p, cut) ==
    KeptPart(SubSeq(p, 1, cut - 1)) \o Parts(SubSeq(p, cut + 1, Len(p)))

RECURSIVE JoinParts(_)
JoinParts(ps) ==
    IF ps = << >> THEN << >>
    ELSE IF Len(ps) = 1 THEN ps[1]
    ELSE ps[1] \o << "/" >> \o JoinParts(Tail(ps))

\* The root of a POSIX path: exactly two leading slashes are kept.
PathRoot(p) ==
    IF Len(p) >= 1 /\ p[1] = "/"
    THEN IF Len(p) >= 2 /\ p[2] = "/" /\ ~(Len(p) >= 3 /\ p[3] = "/")
         THEN << "/", "/" >> ELSE << "/" >>
    ELSE << >>

DotIfEmpty(s) == IF s = << >> THEN << "." >> ELSE s

\* str(Path(p)): Path("") is "."; ".." is kept.
PathStr(p) == DotIfEmpty(PathRoot(p) \o JoinParts(Parts(p)))

LastOf(ps) == IF ps = << >> THEN << >> ELSE ps[Len(ps)]

\* Path(p).name
PathName(p) == LastOf(Parts(p))

\* The index of the last "." of name, 0 if there is none.
LastDot(name) ==
    IF \E i \in 1..Len(name) : name[i] = "."
    THEN CHOOSE i \in 1..Len(name) :
             name[i] = "." /\ \A j \in (i + 1)..Len(name) : name[j] # "."
    ELSE 0

SuffixFrom(name, i) ==
    IF 1 < i /\ i < Len(name) THEN SubSeq(name, i, Len(name)) ELSE << >>

SuffixOfName(name) == SuffixFrom(name, LastDot(name))

\* Path(p).suffix
PathSuffix(p) == SuffixOfName(PathName(p))

\* len(str(n)) for n >= 0
RECURSIVE Digits(_)
Digits(n) == IF n < 10 THEN 1 ELSE 1 + Digits(n \div 10)

\* dict.get(key, default)
Get(md, key, default) == IF key \in DOMAIN md THEN md[key] ELSE default

----------------------------------------------------------------------------
(* Documents as the indexer stores them.                                   *)

\* indexer.py: one Document per chunk, with the chunk's metadata.
IndexedDoc(id, relative_path, chunk_idx, start_line, end_line, total, linelen) ==
    [ page_content |-> [ id |-> id, nlines |-> end_line - start_line + 1,
                         linelen |-> linelen ],
      metadata |-> [ path           |-> PathName(relative_path),
                     file_path      |-> relative_path,
                     file_extension |-> PathSuffix(relative_path),
                     chunk_index    |-> chunk_idx,
                     start_line     |-> start_line,
                     end_line       |-> end_line,
                     total_chunks   |-> total ] ]

\* A document whose metadata holds the file name only: get_relevant_docs and
\* build_context read "file_path" with "path" as the default.
NameOnlyDoc(id, name, nlines, linelen) ==
    [ page_content |-> [ id |-> id, nlines |-> nlines, linelen |-> linelen ],
      metadata |-> [ path |-> name ] ]

\* candidate.metadata.get("file_path", candidate.metadata.get("path", ""))
DocId(doc) == Get(doc.metadata, "file_path", Get(doc.metadata, "path", << >>))

----------------------------------------------------------------------------
(* split_into_chunks of indexer.py: the pure parts.  A content is known by *)
(* the number of its lines, a chunk by <<start_line, end_line>>.           *)

CHUNK_SIZE == 500
CHUNK_OVERLAP == 50

\* Line 73: end = min(start + chunk_size, total_lines)
ChunkEnd(from, size, total) == IF from + size <= total THEN from + size ELSE total

\* NextStart without the overlap: the next chunk starts after this one.
NextStartAfterEnd(end, overlap) == end

\* Line 85: start = end - chunk_overlap
NextStart(end, overlap) == end - overlap

\* Lines 150-170: the documents of the chunks of one file.
ChunkDocuments(relative_path, cs, linelen) ==
    [i \in 1..Len(cs) |->
        IndexedDoc(i, relative_path, i - 1, cs[i][1], cs[i][2], Len(cs), linelen)]

----------------------------------------------------------------------------
(* parse_stack_trace.  The trace is a sequence of items:                   *)
(*   kind "frame":  File "<path>", line <line>   (comma: a "," follows)    *)
(*   kind "quoted": a quoted string <path> outside that idiom              *)
(*   kind "text":   anything else                                          *)

Frame(path, line, comma) ==
    [kind |-> "frame", path |-> path, line |-> line, comma |-> comma]
Quoted(path) ==
    [kind |-> "quoted", path |-> path, line |-> NoneLine, comma |-> FALSE]
Text == [kind |-> "text", path |-> << >>, line |-> NoneLine, comma |-> FALSE]

\* re.findall(pattern1, trace)
Pattern1(tr) == SelectSeq(tr, LAMBDA it : it.kind = "frame")
\* re.findall(pattern2, trace)
Pattern2(tr) == SelectSeq(tr, LAMBDA it : it.kind = "frame" /\ it.comma)
\* re.findall(pattern3, trace): every quoted string ending in ".py", with
\* something before the extension; the quoted path of a frame is one too.
Pattern3(tr) ==
    SelectSeq(tr, LAMBDA it : /\ it.kind \in {"frame", "quoted"}
                              /\ Len(it.path) > 3
                              /\ EndsWith(it.path, << ".", "p", "y" >>))

RECURSIVE AddMatches(_, _, _)
\* The loop body of lines 49-64 (keep_line) and 70-82 (line is None).
AddMatches(matches, acc, keep_line) ==
    IF matches = << >> THEN acc
    ELSE LET m         == Head(matches)
             file_name == PathName(m.path)
             info      == [ file      |-> file_name,
                            line      |-> IF keep_line THEN m.line ELSE NoneLine,
                            full_path |-> m.path,
                            file_path |-> PathStr(m.path) ]
         IN  AddMatches(Tail(matches),
                        IF file_name \notin acc.seen_files
                        THEN [ extracted_info |-> Append(acc.extracted_info, info),
                               seen_files     |-> acc.seen_files \cup {file_name} ]
                        ELSE acc,
                        keep_line)

\* parse_stack_trace with line 55 replaced by "line = None".
ParseWithoutLines(tr) ==
    LET empty   == [extracted_info |-> << >>, seen_files |-> {}]
        primary == AddMatches(Pattern2(tr),
                              AddMatches(Pattern1(tr), empty, FALSE), FALSE)
    IN  IF primary.extracted_info # << >>
        THEN primary.extracted_info
        ELSE AddMatches(Pattern3(tr), primary, FALSE).extracted_info

parse_stack_trace(tr) ==
    LET empty   == [extracted_info |-> << >>, seen_files |-> {}]
        primary == AddMatches(Pattern2(tr),
                              AddMatches(Pattern1(tr), empty, TRUE), TRUE)
    IN  IF primary.extracted_info # << >>
        THEN primary.extracted_info
        ELSE AddMatches(Pattern3(tr), primary, FALSE).extracted_info

\* parse_stack_trace of src/resolver.py, the module that src/main.py and
\* src/api.py import: its pattern asks for a number after "line", and every
\* match gives a reference with the keys file and line.
resolver_parse_stack_trace(tr) ==
    LET matches == SelectSeq(tr, LAMBDA it : it.kind = "frame" /\ it.line # NoneLine)
    IN  [i \in 1..Len(matches) |->
            [file |-> PathName(matches[i].path), line |-> matches[i].line]]

----------------------------------------------------------------------------
(* File classes of context_builder.py.                                     *)

CODE_EXTENSIONS ==
    { ".py", ".pyx", ".pyi",
      ".js", ".ts", ".jsx", ".tsx", ".mjs", ".cjs",
      ".java", ".kt", ".scala", ".groovy",
      ".cpp", ".c", ".h", ".hpp", ".cc", ".cxx", ".hxx",
      ".go", ".rs", ".rb", ".php", ".swift", ".dart",
      ".cs", ".vb", ".fs",
      ".sh", ".bash", ".zsh", ".fish",
      ".sql", ".pl", ".pm", ".r", ".m", ".lua", ".vim", ".clj", ".hs", ".elm" }

DOC_EXTENSIONS ==
    { ".md", ".txt", ".rst", ".adoc", ".asciidoc", ".org", ".wiki", ".tex" }

MARKUP_EXTENSIONS ==
    { ".html", ".htm", ".xml", ".xhtml", ".svg", ".css", ".scss", ".sass",
      ".less", ".styl" }

DATA_EXTENSIONS ==
    { ".json", ".yaml", ".yml", ".toml", ".ini", ".cfg", ".conf", ".csv",
      ".tsv", ".xlsx", ".xls" }

IGNORE_FILES ==
    { "dockerfile", "docker-compose.yml", "docker-compose.yaml", ".dockerignore",
      ".gitignore", ".gitattributes", ".gitmodules",
      "package.json", "package-lock.json", "yarn.lock", "pnpm-lock.yaml",
      "requirements.txt", "setup.py", "pyproject.toml", "poetry.lock",
      "license", "license.txt",
      ".env", ".env.example", ".env.local", ".env.production",
      "makefile", "cmakelists.txt", ".editorconfig", ".prettierrc",
      ".eslintrc", ".eslintrc.json", "tsconfig.json", "webpack.config.js",
      "babel.config.js", ".babelrc", "jest.config.js", "pytest.ini",
      ".coveragerc", ".pylintrc", ".flake8", "mypy.ini",
      "composer.json", "composer.lock", "gemfile", "gemfile.lock",
      "cargo.toml", "cargo.lock", "go.mod", "go.sum",
      "pom.xml", "build.gradle", "build.sbt",
      ".travis.yml", ".github/workflows", "ci.yml", ".gitlab-ci.yml",
      "vagrantfile", "vagrantfile.rb" }

should_ignore_file(file_path) ==
    LET file_name_lower == Str(Lower(PathName(file_path)))
        ext             == Str(Lower(PathSuffix(file_path)))
    IN  \/ file_name_lower \in IGNORE_FILES
        \/ ext \in MARKUP_EXTENSIONS
        \/ ext \in DATA_EXTENSIONS

\* The priority in tenths: 1.0, 0.7, 0.3.
get_file_priority(file_path) ==
    LET ext == Str(Lower(PathSuffix(file_path)))
    IN  IF ext \in CODE_EXTENSIONS THEN 10
        ELSE IF ext \in DOC_EXTENSIONS THEN 7
        ELSE 3

----------------------------------------------------------------------------
(* get_relevant_docs: the pure parts.                                      *)

MaxDocs == 20               \* max_docs
DistanceThreshold == 15     \* 1.5, in tenths
BatchPerFile == 10          \* k of the batched query, per file name
BatchMax == 100             \* upper limit of that k
SemanticK == 10             \* k of the scored query in context_builder.py
FallbackK == 5              \* k of the fallback query in context_builder.py
ResolverK == 3              \* k of both queries in resolver.py

\* Scores are exact rationals <<num, den>>, den > 0.
ScoreLess(a, b) == a[1] * b[2] < b[1] * a[2]
ExactScore == << 1, 1 >>                     \* 1.0
RelevanceFloor == << 1, 10 >>                \* 0.1
ResolverFallbackScore == << 3, 10 >>         \* 0.3

\* str(Path(p)).replace("\\", "/").lower()
Normalized(p) == Lower(ReplaceBackslash(PathStr(p)))

\* Lines 204-212: one normalised path ends with or contains the other.
PathsOverlap(full_path_normalized, doc_path_normalized) ==
    \/ EndsWith(full_path_normalized, doc_path_normalized)
    \/ EndsWith(doc_path_normalized, full_path_normalized)
    \/ Contains(doc_path_normalized, full_path_normalized)
    \/ Contains(full_path_normalized, doc_path_normalized)

\* Lines 199-224, given the fields of the reference and of the candidate.
ExactTest(file_name, full_path, doc_name, doc_path) ==
    \/ full_path # << >> /\ PathsOverlap(Normalized(full_path), Normalized(doc_path))
    \/ doc_name = file_name
    \/ /\ doc_path # << >>
       /\ file_name # << >>
       /\ EndsWith(Normalized(doc_path), Lower(file_name))

\* Lines 199-224: does the candidate pass the exact-path test of a reference?
IsExactMatch(info, doc) ==
    ExactTest(info.file, info.full_path,
              Get(doc.metadata, "path", << >>),
              Get(doc.metadata, "file_path", << >>))

\* Lines 182-187: the batched candidates, deduplicated by path key.
RECURSIVE DedupCandidates(_, _, _)
DedupCandidates(candidates, seen_candidate_ids, acc) ==
    IF candidates = << >> THEN acc
    ELSE LET candidate    == Head(candidates)
             candidate_id == DocId(candidate)
         IN  IF candidate_id \notin seen_candidate_ids
             THEN DedupCandidates(Tail(candidates),
                                  seen_candidate_ids \cup {candidate_id},
                                  Append(acc, candidate))
             ELSE DedupCandidates(Tail(candidates), seen_candidate_ids, acc)

\* Lines 226-232: a candidate that passed the test is recorded unless its path
\* key was recorded before.  st = [seen, exact, found].
RecordExact(doc, st) ==
    IF DocId(doc) \notin st.seen
    THEN [ seen  |-> st.seen \cup {DocId(doc)},
           exact |-> Append(st.exact, << doc, ExactScore >>),
           found |-> TRUE ]
    ELSE st

\* Lines 197-232: the scan of the candidates for one reference.
RECURSIVE ExactScan(_, _, _)
ExactScan(info, candidates, st) ==
    IF candidates = << >> THEN st
    ELSE ExactScan(info, Tail(candidates),
                   IF IsExactMatch(info, Head(candidates))
                   THEN RecordExact(Head(candidates), st)
                   ELSE st)

\* SemanticScore without the normalisation of line 257: the distance itself,
\* weighted.
SemanticScoreRaw(distance, doc_path) ==
    << distance * get_file_priority(doc_path), 100 >>

\* Line 257-260: normalized_score * file_priority, distance in tenths.
SemanticScore(distance, doc_path) ==
    LET normalized_score == IF distance > 0 THEN << 10, 10 + distance >>
                            ELSE << 1, 2 >>
    IN  << normalized_score[1] * get_file_priority(doc_path),
           normalized_score[2] * 10 >>

\* Line 275: 0.2 * file_priority.
FallbackScore(doc_path) == << 2 * get_file_priority(doc_path), 100 >>

\* resolver.py line 189: the score is not weighted.
ResolverSemanticScore(distance) ==
    IF distance > 0 THEN << 10, 10 + distance >> ELSE << 1, 2 >>

\* RecordSemantic without the threshold test of lines 253-255.
RecordSemanticAnyDistance(res, st) ==
    IF should_ignore_file(DocId(res[1])) \/ DocId(res[1]) \in st.seen THEN st
    ELSE [ seen     |-> st.seen \cup {DocId(res[1])},
           semantic |-> Append(st.semantic,
                               << res[1], SemanticScore(res[2], DocId(res[1])) >>) ]

\* Lines 240-262, one iteration: a scored result <<doc, distance>>.
\* st = [seen, semantic].
RecordSemantic(res, st) ==
    LET doc      == res[1]
        distance == res[2]
        doc_path == DocId(doc)
    IN  IF should_ignore_file(doc_path) THEN st
        ELSE IF doc_path \in st.seen THEN st
        ELSE IF distance > DistanceThreshold
             THEN [st EXCEPT !.seen = @ \cup {doc_path}]
        ELSE [ seen     |-> st.seen \cup {doc_path},
               semantic |-> Append(st.semantic,
                                   << doc, SemanticScore(distance, doc_path) >>) ]

\* RecordFallback without the test of line 269: a document is recorded again.
RecordFallbackAgain(doc, st) ==
    IF should_ignore_file(DocId(doc)) THEN st
    ELSE [ seen     |-> st.seen \cup {DocId(doc)},
           semantic |-> Append(st.semantic,
                               << doc, FallbackScore(DocId(doc)) >>) ]

\* Lines 267-275, one iteration: a document of the fallback query.
RecordFallback(doc, st) ==
    LET doc_path == DocId(doc)
    IN  IF should_ignore_file(doc_path) THEN st
        ELSE IF doc_path \in st.seen THEN st
        ELSE [ seen     |-> st.seen \cup {doc_path},
               semantic |-> Append(st.semantic,
                                   << doc, FallbackScore(doc_path) >>) ]

\* resolver.py lines 184-191, one iteration.
ResolverRecordSemantic(res, st) ==
    LET doc_id == DocId(res[1])
    IN  IF doc_id \in st.seen THEN st
        ELSE [ seen     |-> st.seen \cup {doc_id},
               semantic |-> Append(st.semantic,
                                   << res[1], ResolverSemanticScore(res[2]) >>) ]

\* resolver.py lines 196-200, one iteration.
ResolverRecordFallback(doc, st) ==
    LET doc_id == DocId(doc)
    IN  IF doc_id \in st.seen THEN st
        ELSE [ seen     |-> st.seen \cup {doc_id},
               semantic |-> Append(st.semantic, << doc, ResolverFallbackScore >>) ]

RECURSIVE SemanticScan(_, _, _)
\* The loop over the scored results, in either module.
SemanticScan(module, results, st) ==
    IF results = << >> THEN st
    ELSE SemanticScan(module, Tail(results),
                      IF module = "context_builder"
                      THEN RecordSemantic(Head(results), st)
                      ELSE ResolverRecordSemantic(Head(results), st))

RECURSIVE FallbackScan(_, _, _)
\* The loop over the fallback results, in either module.
FallbackScan(module, results, st) ==
    IF results = << >> THEN st
    ELSE FallbackScan(module, Tail(results),
                      IF module = "context_builder"
                      THEN RecordFallback(Head(results), st)
                      ELSE ResolverRecordFallback(Head(results), st))

\* Where sorted(..., reverse=True) puts a match among the matches sorted so
\* far: after every one whose score is not lower (the sort is stable).
InsertByScore(m, sorted) ==
    LET before == {i \in 1..Len(sorted) : ~ScoreLess(sorted[i][2], m[2])}
        pos    == IF before = {} THEN 0
                  ELSE CHOOSE i \in before : \A j \in before : j <= i
    IN  SubSeq(sorted, 1, pos) \o << m >> \o SubSeq(sorted, pos + 1, Len(sorted))

RECURSIVE SortedByScore(_, _)
\* sorted(all_matches, key=lambda x: x[1], reverse=True)
SortedByScore(matches, sorted) ==
    IF matches = << >> THEN sorted
    ELSE SortedByScore(Tail(matches), InsertByScore(Head(matches), sorted))

\* BelowFloor without the test of line 288: nothing is dropped.
BelowFloorNever(m, exact) == FALSE

\* Line 288: is the match dropped for its low relevance?
BelowFloor(m, exact) ==
    /\ ScoreLess(m[2], RelevanceFloor)
    /\ ~\E i \in 1..Len(exact) : exact[i][1] = m[1]

\* Lines 279-296: merge, sort, cap, floor.
MergeAndBound(exact, semantic) ==
    LET sorted_matches == SortedByScore(exact \o semantic, << >>)
        capped == SubSeq(sorted_matches, 1, Min(MaxDocs, Len(sorted_matches)))
        kept   == SelectSeq(capped, LAMBDA m : ~BelowFloor(m, exact))
    IN  [i \in 1..Len(kept) |-> kept[i][1]]

\* resolver.py line 203: merge and sort only.
ResolverMerge(exact, semantic) ==
    LET sorted_matches == SortedByScore(exact \o semantic, << >>)
    IN  [i \in 1..Len(sorted_matches) |-> sorted_matches[i][1]]

----------------------------------------------------------------------------
(* build_context.  A rendered block is a record                            *)
(*   [doc, mode, relevant_lines, ranges, len, truncated]                   *)
(* where len is len(content), the number of characters of the block.       *)

ContextLines == 20          \* lines shown before and after a relevant line
PreviewLines == 100         \* lines shown of a file found by similarity only
MinRemaining == 100         \* a block is cut only if more than this remains
CutReserve == 50            \* characters given up when a block is cut
MarkerLen == 22             \* len("\n\n[контекст обрезан]\n\n")
CharsPerToken == 4          \* max_chars = max_tokens * 4
HeadLen == 10               \* len("=== Файл: ")
TraceHeadLen == 25          \* len(" (строки из stack trace: ")
TraceTailLen == 6           \* len(") ===\n")
SimilarChunkLen == 38       \* len(" (найден через similarity search) ===\n")
SimilarFileLen == 65        \* len(" (найден через similarity search, показаны первые 100 строк) ===\n")
NoticeLen == 33             \* len("\n... (файл обрезан, всего ") + len(" строк)")
ChunkInfoLen == 19          \* len(" [чанк ") + len("/") + len(", строки ") + len("-") + len("]")
NumberWidth == 4            \* the width of {actual_line:4d}
LinePrefixLen == 7          \* len(">>> ") + len(" | ")
ResolveErrorTokens == 150000    \* max_tokens passed by resolve_error

Unknown == << "u", "n", "k", "n", "o", "w", "n" >>

\* "x and y" on values that may be None or 0
Truthy(x) == x # NoneLine /\ x # 0

RECURSIVE SumSeq(_)
SumSeq(s) == IF s = << >> THEN 0 ELSE Head(s) + SumSeq(Tail(s))

\* len("\n".join(parts)) from the lengths of the parts
JoinedLen(lens, sep) ==
    IF lens = << >> THEN 0 ELSE SumSeq(lens) + sep * (Len(lens) - 1)

\* len(f"{marker}{actual_line:4d} | {line}")
NumberedLineLen(actual_line, linelen) ==
    LinePrefixLen + Max(NumberWidth, Digits(actual_line)) + linelen

\* len of "\n".join(numbered_lines) for the file lines first..last
NumberedLen(first, last, linelen) ==
    JoinedLen([i \in 1..Max(0, last - first + 1) |->
                   NumberedLineLen(first + i - 1, linelen)], 1)

\* len(', '.join(map(str, relevant_lines)))
LinesListLen(relevant_lines) ==
    JoinedLen([i \in 1..Len(relevant_lines) |-> Digits(relevant_lines[i])], 2)

\* FileLines without the test "line_num is not None" of line 321.
FileLinesWithNone(infos, name) ==
    LET hits == SelectSeq(infos, LAMBDA info :
                    info.file # << >> /\ info.file = name)
    IN  [i \in 1..Len(hits) |-> hits[i].line]

\* Lines 316-324 and 357: file_lines_map.get(name, [])
FileLines(infos, name) ==
    LET hits == SelectSeq(infos, LAMBDA info :
                    info.file # << >> /\ info.line # NoneLine /\ info.file = name)
    IN  [i \in 1..Len(hits) |-> hits[i].line]

\* Lines 362-372: the lines of the references whose full path names the file.
FullPathLines(infos, file_name, file_name_relative) ==
    LET hits == SelectSeq(infos, LAMBDA info :
                    /\ info.full_path # << >>
                    /\ PathName(info.full_path) \in {file_name, file_name_relative}
                    /\ info.line # NoneLine)
    IN  [i \in 1..Len(hits) |-> hits[i].line]

\* dict.get with the next source as the fallback of an empty list
FirstNonEmpty(a, b) == IF a # << >> THEN a ELSE b

\* LinesInChunk without the filter of lines 377-387.
LinesInChunkUnfiltered(lines, is_chunk, chunk_start, chunk_end) == lines

\* Lines 375-387: only the lines inside the chunk are relevant to a chunk.
LinesInChunk(lines, is_chunk, chunk_start, chunk_end) ==
    IF is_chunk /\ lines # << >> /\ Truthy(chunk_start) /\ Truthy(chunk_end)
    THEN SelectSeq(lines, LAMBDA n : chunk_start <= n /\ n <= chunk_end)
    ELSE lines

\* Lines 357-372, for the two names of the document.
LinesOfNames(infos, file_name, file_name_relative) ==
    FirstNonEmpty(FileLines(infos, file_name),
        FirstNonEmpty(FileLines(infos, file_name_relative),
                      FullPathLines(infos, file_name, file_name_relative)))

\* doc.metadata.get("path", "unknown")
MetaPath(doc) == Get(doc.metadata, "path", Unknown)
\* doc.metadata.get("file_path", file_path_meta)
RelativePath(doc) == Get(doc.metadata, "file_path", MetaPath(doc))

\* Lines 357-387: the relevant lines of a document.
RelevantLines(doc, infos) ==
    LinesInChunk(LinesOfNames(infos, PathName(MetaPath(doc)),
                              PathName(RelativePath(doc))),
                 "chunk_index" \in DOMAIN doc.metadata,
                 Get(doc.metadata, "start_line", NoneLine),
                 Get(doc.metadata, "end_line", NoneLine))

\* Tuples (start, end, line_num) compare as Python tuples do.
RangeLess(a, b) ==
    \/ a[1] < b[1]
    \/ a[1] = b[1] /\ a[2] < b[2]
    \/ a[1] = b[1] /\ a[2] = b[2] /\ a[3] < b[3]

\* Where context_ranges.sort() puts r among the sorted ranges: after the
\* last one that is not greater.
RECURSIVE InsertSorted(_, _, _)
InsertSorted(r, sorted, n) ==
    IF n = 0 \/ ~RangeLess(r, sorted[n])
    THEN SubSeq(sorted, 1, n) \o << r >> \o SubSeq(sorted, n + 1, Len(sorted))
    ELSE InsertSorted(r, sorted, n - 1)

RECURSIVE SortRanges(_, _)
\* context_ranges.sort()
SortRanges(ranges, sorted) ==
    IF ranges = << >> THEN sorted
    ELSE SortRanges(Tail(ranges), InsertSorted(Head(ranges), sorted, Len(sorted)))

\* MergeOne without the test of line 419: no window joins another.
MergeOneNever(r, merged, last) == Append(merged, r)

\* Lines 417-422: one window joins the last merged one or follows it.
MergeOne(r, merged, last) ==
    IF r[1] <= last[2]
    THEN [merged EXCEPT ![Len(merged)] = << last[1], Max(last[2], r[2]), r[3] >>]
    ELSE Append(merged, r)

RECURSIVE MergeRanges(_, _)
\* Lines 415-422.
MergeRanges(ranges, merged) ==
    IF ranges = << >> THEN merged
    ELSE MergeRanges(Tail(ranges),
                     MergeOne(Head(ranges), merged, merged[Len(merged)]))

MergeSorted(sorted) == MergeRanges(Tail(sorted), << Head(sorted) >>)

\* Lines 404-422: the merged windows around the relevant lines.
ContextRanges(relevant_lines, nlines) ==
    MergeSorted(SortRanges(
        [i \in 1..Len(relevant_lines) |->
            << Max(0, relevant_lines[i] - 1 - ContextLines),
               Min(nlines, relevant_lines[i] - 1 + ContextLines + 1),
               relevant_lines[i] >>], << >>))

\* display_path of lines 399, 437, 449 and 456
DisplayPath(relative, meta) == IF relative # Unknown THEN relative ELSE meta

\* len(chunk_info) of lines 400 and 448
ChunkInfo(md) ==
    ChunkInfoLen + Digits(Get(md, "chunk_index", 0) + 1)
      + Digits(Get(md, "total_chunks", 1))
      + Digits(Get(md, "start_line", NoneLine))
      + Digits(Get(md, "end_line", NoneLine))

Block(doc, mode, relevant_lines, ranges, n) ==
    [ doc |-> doc, mode |-> mode, relevant_lines |-> relevant_lines,
      ranges |-> ranges, len |-> n, truncated |-> FALSE ]

\* Lines 391-401: the whole chunk, the relevant lines marked.
ChunkMarked(doc, relevant_lines, head, chunk_start, nlines, linelen) ==
    Block(doc, "chunk_marked", relevant_lines, << >>,
          head + ChunkInfo(doc.metadata) + TraceHeadLen
            + LinesListLen(relevant_lines) + TraceTailLen
            + NumberedLen(chunk_start, chunk_start + nlines - 1, linelen) + 2)

\* Lines 404-438: the merged windows around the relevant lines.
Windows(doc, relevant_lines, ranges, head, nlines, linelen) ==
    Block(doc, "windows", relevant_lines, ranges,
          head + TraceHeadLen + LinesListLen(relevant_lines) + TraceTailLen
            + JoinedLen([i \in 1..Len(ranges) |->
                  NumberedLen(ranges[i][1] + 1, Min(ranges[i][2], nlines),
                              linelen)], 1)
            + 2)

\* Lines 446-450: the whole chunk, found by similarity.
ChunkSimilar(doc, head, nlines, linelen) ==
    Block(doc, "chunk_similar", << >>, << >>,
          head + ChunkInfo(doc.metadata) + SimilarChunkLen
            + JoinedLen([i \in 1..nlines |-> linelen], 1) + 2)

\* Lines 452-457: the first lines of a file found by similarity.
Preview(doc, head, nlines, linelen) ==
    Block(doc, "preview", << >>, << >>,
          head + SimilarFileLen
            + JoinedLen([i \in 1..Min(nlines, PreviewLines) |-> linelen]
                          \o (IF nlines > PreviewLines
                              THEN << NoticeLen + Digits(nlines) >> ELSE << >>), 1)
            + 2)

\* Lines 389-457: the block, given the relevant lines.
RenderWith(doc, relevant_lines, whole_chunk, head, nlines, linelen) ==
    IF relevant_lines # << >> /\ whole_chunk
    THEN ChunkMarked(doc, relevant_lines, head,
                     Get(doc.metadata, "start_line", NoneLine), nlines, linelen)
    ELSE IF relevant_lines # << >>
    THEN Windows(doc, relevant_lines, ContextRanges(relevant_lines, nlines),
                 head, nlines, linelen)
    ELSE IF whole_chunk THEN ChunkSimilar(doc, head, nlines, linelen)
    ELSE Preview(doc, head, nlines, linelen)

\* Lines 348-457: the block rendered for one document.
RenderBlock(doc, infos) ==
    RenderWith(doc, RelevantLines(doc, infos),
               /\ "chunk_index" \in DOMAIN doc.metadata
               /\ Truthy(Get(doc.metadata, "start_line", NoneLine))
               /\ Truthy(Get(doc.metadata, "end_line", NoneLine)),
               HeadLen + Len(DisplayPath(RelativePath(doc), MetaPath(doc))),
               doc.page_content.nlines, doc.page_content.linelen)

\* actual_line of lines 395 and 431: the numbers the lines of a block carry.
NumberedLines(block) ==
    IF block.mode = "chunk_marked"
    THEN LET chunk_start == Get(block.doc.metadata, "start_line", NoneLine)
         IN  chunk_start..(chunk_start + block.doc.page_content.nlines - 1)
    ELSE IF block.mode = "windows"
    THEN UNION { (block.ranges[i][1] + 1)..block.ranges[i][2] :
                     i \in 1..Len(block.ranges) }
    ELSE {}

\* marker of line 396 (actual_line in relevant_lines) and of line 432
\* (actual_line == line_num, the one line_num the merged range carries):
\* the numbers of the lines that start with ">>> ".
MarkedLines(block) ==
    IF block.mode = "chunk_marked"
    THEN { n \in NumberedLines(block) :
             \E i \in 1..Len(block.relevant_lines) : block.relevant_lines[i] = n }
    ELSE IF block.mode = "windows"
    THEN { block.ranges[i][3] : i \in { j \in 1..Len(block.ranges) :
             /\ block.ranges[j][1] + 1 <= block.ranges[j][3]
             /\ block.ranges[j][3] <= block.ranges[j][2] } }
    ELSE {}

\* The number of lines of the document that a block shows: content_lines of
\* lines 394 and 450, the slices of lines 427 and 453.
ShownLines(block) ==
    IF block.mode = "preview"
    THEN Min(block.doc.page_content.nlines, PreviewLines)
    ELSE IF block.mode = "chunk_similar" THEN block.doc.page_content.nlines
    ELSE Cardinality(NumberedLines(block))

\* any(...) of lines 338-342
InStackTrace(infos, file_name, file_name_relative) ==
    \E i \in 1..Len(infos) :
        \/ Lower(infos[i].file) = Lower(file_name)
        \/ Lower(infos[i].file) = Lower(file_name_relative)

\* Lines 338-346 (context_builder.py only): is the document left out?
SkippedAsService(doc, infos) ==
    /\ ~InStackTrace(infos, PathName(MetaPath(doc)), PathName(RelativePath(doc)))
    /\ should_ignore_file(RelativePath(doc))

\* CutBlock without the test of line 463: the cut block is always appended.
CutBlockAlways(block, remaining_chars) ==
    << [block EXCEPT !.len = Min(block.len, Max(0, remaining_chars - CutReserve))
                              + MarkerLen,
                    !.truncated = TRUE] >>

\* Lines 462-467: what is appended when a block does not fit.
CutBlock(block, remaining_chars) ==
    IF remaining_chars > MinRemaining
    THEN << [block EXCEPT !.len = Min(block.len, remaining_chars - CutReserve)
                                    + MarkerLen,
                          !.truncated = TRUE] >>
    ELSE << >>

RECURSIVE Assemble(_, _, _, _, _, _)
RECURSIVE Place(_, _, _, _, _, _, _)
\* Lines 329-470: the loop over the documents.
Assemble(module, docs, infos, max_chars, combined, current_length) ==
    IF docs = << >> THEN combined
    ELSE IF module = "context_builder" /\ SkippedAsService(Head(docs), infos)
    THEN Assemble(module, Tail(docs), infos, max_chars, combined, current_length)
    ELSE Place(module, RenderBlock(Head(docs), infos), Tail(docs), infos,
               max_chars, combined, current_length)
\* Place with ">=" for the ">" of line 461: an exact fit is cut.
PlaceBelowOnly(module, block, rest, infos, max_chars, combined, length) ==
    IF length + block.len >= max_chars
    THEN combined \o CutBlock(block, max_chars - length)
    ELSE Assemble(module, rest, infos, max_chars, Append(combined, block),
                  length + block.len)
\* Place with the break of line 468 replaced by "continue".
PlaceWithoutBreak(module, block, rest, infos, max_chars, combined, length) ==
    IF length + block.len > max_chars
    THEN Assemble(module, rest, infos, max_chars,
                  combined \o CutBlock(block, max_chars - length), length)
    ELSE Assemble(module, rest, infos, max_chars, Append(combined, block),
                  length + block.len)
\* Lines 459-470: the block is appended, or cut and the loop left.
Place(module, block, rest, infos, max_chars, combined, current_length) ==
    IF current_length + block.len > max_chars
    THEN combined \o CutBlock(block, max_chars - current_length)
    ELSE Assemble(module, rest, infos, max_chars, Append(combined, block),
                  current_length + block.len)

\* build_context(docs, stack_info, max_tokens): the blocks of "\n".join(combined)
build_context(module, docs, infos, tokens) ==
    Assemble(module, docs, infos, tokens * CharsPerToken, << >>, 0)

\* len(result) of "\n".join(combined)
ResultLen(blocks) == JoinedLen([i \in 1..Len(blocks) |-> blocks[i].len], 1)

----------------------------------------------------------------------------
(* The inputs: traces, documents and stores.                               *)

MaxFrames == 2      \* longest trace of the general scenarios
MaxRanked == 2      \* largest store whose every ranking is explored
MaxTokens == 110    \* largest budget of a direct build_context call
MaxInputDocs == 3   \* longest document list of a direct build_context call

Py == << ".", "p", "y" >>
PathA     == << "s", "/", "a" >> \o Py                  \* s/a.py
PathB     == << "s", "/", "b" >> \o Py                  \* s/b.py
PathN     == << "n", ".", "m", "d" >>                   \* documentation
PathK     == << "k", ".", "x" >>                        \* neither code nor documentation
PathQ     == << "q", ".", "c", "s", "s" >>              \* markup, ignored
TraceA    == << "/", "r", "/", "s", "/", "a" >> \o Py   \* /r/s/a.py
TraceB    == << "b" >> \o Py
TraceX    == << "x" >> \o Py

DocA  == IndexedDoc(1, PathA, 0, 1, 30, 1, 10)
DocB  == IndexedDoc(2, PathB, 0, 1, 8, 1, 10)
DocN  == IndexedDoc(3, PathN, 0, 1, 5, 1, 10)
DocK  == IndexedDoc(4, PathK, 0, 1, 5, 1, 10)
DocQ  == IndexedDoc(5, PathQ, 0, 1, 5, 1, 10)
DocA1 == IndexedDoc(6, PathA, 0, 1, 12, 2, 10)
DocA2 == IndexedDoc(7, PathA, 1, 9, 20, 2, 10)
DocP  == NameOnlyDoc(8, << "a" >> \o Py, 120, 10)
DocD  == IndexedDoc(10, << "s", "/", "d", "a" >> \o Py, 0, 1, 5, 1, 10)  \* s/da.py

FrameA == Frame(TraceA, 10, TRUE)
FrameB == Frame(TraceB, NoneLine, FALSE)
FrameX == Frame(TraceX, 3, FALSE)
QuotedA == Quoted(PathA)
FrameA15 == Frame(TraceA, 15, FALSE)    \* a line of the second chunk alone

TraceItems == { FrameA, FrameB, FrameX }

SeqsUpTo(S, n) == UNION { [1..m -> S] : m \in 0..n }

\* A frame occurs once, or twice as the first and the last of the trace.
RepeatsOnlyAtEnds(t) ==
    \A i, j \in 1..Len(t) : i < j /\ t[i] = t[j] => i = 1 /\ j = Len(t)

\* The traces of at most MaxFrames frames, one without any file in it, two
\* with a quoted path outside a frame, and one with a later line of a.py.
Traces ==
    { t \in SeqsUpTo(TraceItems, MaxFrames) : RepeatsOnlyAtEnds(t) }
        \cup { << Text >>, << Text, QuotedA >>, << QuotedA, FrameB >>,
               << FrameA15 >> }

Stores == { << >>, << DocA, DocB >>, << DocA1, DocA2 >>, << DocN, DocK >>,
            << DocP, DocQ >>, << DocD >> }

\* A store with n files named a.py, one per directory, and two other files.
ManyNamesakes(n) ==
    [i \in 1..n |-> IndexedDoc(100 + i, << LowerLetters[i], "/", "a" >> \o Py,
                               0, 1, 3, 1, 10)]
        \o << DocN, DocK >>

BigStores == { ManyNamesakes(MaxDocs - 1), ManyNamesakes(MaxDocs + 1) }
BigTraces == { << FrameA, FrameB, FrameX >>, << FrameX, FrameA, FrameB >> }

Distances == { 0, 5, 15, 20 }       \* 0.0, 0.5, 1.5, 2.0
Budgets == { 0, 60, 400 }

\* The inputs of a direct call of build_context.
FrameQ == Frame(PathQ, 2, FALSE)
BuildDocs == { DocB, DocK, DocQ, DocA1 }
BuildInfos == { << >>, parse_stack_trace(<< FrameA >>),
                parse_stack_trace(<< FrameQ >>) }

\* The inputs of two runs on the same trace and the same index.
RunTraces == { << FrameA, FrameB >>, << FrameB, FrameX >>, << FrameX >>,
               << FrameX, FrameA >> }
RunStores == { << DocA1, DocA2 >>, << DocN, DocK >> }

----------------------------------------------------------------------------
(* The vector store.  To a query text it answers with a ranking of its     *)
(* documents, nearest first: a sequence of <<position in store, distance>>.*)
(* similarity_search_with_score(q, k) is the first k of it,                *)
(* similarity_search(q, k) the documents of those.  The ranking of a text  *)
(* is chosen when the text is first queried and remembered in index_memo.  *)

Injective(f) == \A i, j \in DOMAIN f : f[i] = f[j] => i = j
NonDecreasing(f) == \A i, j \in DOMAIN f : i <= j => f[i] <= f[j]

\* The least and the greatest element of a set of numbers.
Extremes(D) == { d \in D : (\A e \in D : d <= e) \/ (\A e \in D : e <= d) }

\* The rankings with distances in D: every one of a store of at most
\* MaxRanked documents; of a larger store, the storage order and its reverse,
\* all documents at the least or all at the greatest distance.
RankingsOver(D) ==
    LET n == Len(store)
    IN  IF n <= MaxRanked
        THEN { [i \in 1..n |-> << o[i], d[i] >>] :
                 o \in { f \in [1..n -> 1..n] : Injective(f) },
                 d \in { g \in [1..n -> D] : NonDecreasing(g) } }
        ELSE { [i \in 1..n |-> << IF up THEN i ELSE n + 1 - i, d >>] :
                 up \in BOOLEAN, d \in Extremes(D) }

\* Is the batched text the text of a scored query too?  It is when the trace
\* names one file.  (parse_stack_trace returns each file name once.)
SharedText == pc = "batch" /\ Len(stack_info) = 1

\* Can a later query repeat the text of this one?
Repeatable == runs > run \/ SharedText

\* The rankings a query of text q may get.  The distances of a ranking that
\* no scored query will read are left at their least value.
RankingsFor(q, scored) ==
    IF q \in DOMAIN index_memo THEN { index_memo[q] }
    ELSE IF scored \/ SharedText THEN RankingsOver(Distances)
    ELSE RankingsOver({0})

Remember(q, ranking) ==
    IF Repeatable
    THEN [x \in DOMAIN index_memo \cup {q} |->
             IF x = q THEN ranking ELSE index_memo[x]]
    ELSE index_memo

\* The answer to similarity_search_with_score(q, k)
Scored(ranking, k) ==
    [i \in 1..Min(k, Len(ranking)) |-> << store[ranking[i][1]], ranking[i][2] >>]

\* The answer to similarity_search(q, k)
Unscored(ranking, k) ==
    [i \in 1..Min(k, Len(ranking)) |-> store[ranking[i][1]]]

RECURSIVE JoinSpace(_)
\* " ".join(names)
JoinSpace(names) ==
    IF names = << >> THEN << >>
    ELSE IF Len(names) = 1 THEN names[1]
    ELSE names[1] \o << " " >> \o JoinSpace(Tail(names))

\* The orders in which a set may be iterated.
SetOrders(S) == { f \in [1..Cardinality(S) -> S] : Injective(f) }

Query(method, q, k) == [method |-> method, query |-> q, k |-> k]

----------------------------------------------------------------------------
(* The state machine.  entry names the code that is run:                   *)
(*   "context_builder": parse_stack_trace, get_relevant_docs and           *)
(*       build_context of context_builder.py, called one after the other;  *)
(*   "resolve_error":   resolve_error of resolver.py, up to build_context; *)
(*   "build_context":   build_context of context_builder.py alone;         *)
(*   "build_context_lines": build_context of context_builder.py alone, on  *)
(*       references with requested lines;                                  *)
(*   "parse_stack_trace", "resolver.parse_stack_trace": a parser alone.    *)

NoResult == [kind |-> "none", blocks |-> << >>]

Module == IF entry = "resolve_error" THEN "resolver" ELSE "context_builder"

\* No file is being indexed.
IndexerIdle ==
    /\ total_lines = 0
    /\ chunk_size = 0
    /\ chunk_overlap = 0
    /\ start = 0
    /\ chunks = << >>
    /\ documents = << >>

Fresh ==
    /\ stack_info = << >>
    /\ all_candidates = << >>
    /\ seen_doc_paths = {}
    /\ exact_matches = << >>
    /\ semantic_matches = << >>
    /\ ref_i = 1
    /\ log = << >>
    /\ queries = << >>
    /\ search_query = << >>
    /\ all_documents = << >>
    /\ result = NoResult

Init ==
    /\ IndexerIdle
    /\ entry \in {"context_builder", "resolve_error"}
    /\ \/ trace \in Traces /\ store \in Stores
       \/ trace \in BigTraces /\ store \in BigStores
    /\ pc = "parse"
    /\ Fresh
    /\ index_memo = << >>
    /\ max_tokens = IF entry = "resolve_error" THEN ResolveErrorTokens ELSE 0
    /\ runs = 1
    /\ run = 1
    /\ first_result = NoResult

\* ParseStackTrace without the return of resolver.py lines 398-400.
ParseStackTraceGoesOn ==
    /\ pc = "parse"
    /\ stack_info' = parse_stack_trace(trace)
    /\ pc' = "batch"
    /\ UNCHANGED << indexer_vars, entry, trace, store, all_candidates, seen_doc_paths,
                    exact_matches, semantic_matches, ref_i, log, queries,
                    search_query, index_memo, all_documents, max_tokens, result,
                    runs, run, first_result >>

\* resolver.py lines 396-400; the other entry goes on with an empty list.
ParseStackTrace ==
    /\ pc = "parse"
    /\ stack_info' = parse_stack_trace(trace)
    /\ IF entry = "resolve_error" /\ stack_info' = << >>
       THEN /\ result' = [kind |-> "no_references", blocks |-> << >>]
            /\ pc' = "done"
       ELSE /\ result' = result
            /\ pc' = "batch"
    /\ UNCHANGED << indexer_vars, entry, trace, store, all_candidates, seen_doc_paths,
                    exact_matches, semantic_matches, ref_i, log, queries,
                    search_query, index_memo, all_documents, max_tokens, runs,
                    run, first_result >>

file_names == [i \in 1..Len(stack_info) |-> stack_info[i].file]
BatchK == Min(BatchMax, Len(file_names) * BatchPerFile)

\* Lines 172-187: the batched query and the deduplication of its candidates.
BatchQuery ==
    /\ pc = "batch"
    /\ \E order \in SetOrders({file_names[i] : i \in 1..Len(file_names)}) :
         LET q == JoinSpace(order)
         IN  /\ search_query' = q
             /\ IF q # << >>
                THEN \E ranking \in RankingsFor(q, FALSE) :
                       /\ index_memo' = Remember(q, ranking)
                       /\ queries' = Append(queries,
                                            Query("similarity_search", q, BatchK))
                       /\ all_candidates' =
                              DedupCandidates(Unscored(ranking, BatchK), {}, << >>)
                ELSE UNCHANGED << index_memo, queries, all_candidates >>
    /\ pc' = IF stack_info = << >> THEN "merge" ELSE "refs"
    /\ UNCHANGED << indexer_vars, entry, trace, store, stack_info, seen_doc_paths,
                    exact_matches, semantic_matches, ref_i, log, all_documents,
                    max_tokens, result, runs, run,
                    first_result >>

\* Line 181 is outside every try: a failure of the batched query propagates.
BatchQueryFails ==
    /\ pc = "batch"
    /\ \E order \in SetOrders({file_names[i] : i \in 1..Len(file_names)}) :
         /\ JoinSpace(order) # << >>
         /\ search_query' = JoinSpace(order)
         /\ queries' = Append(queries, Query("similarity_search",
                                             JoinSpace(order), BatchK))
    /\ pc' = "raised"
    /\ result' = [kind |-> "raised", blocks |-> << >>]
    /\ UNCHANGED << indexer_vars, entry, trace, store, stack_info, all_candidates,
                    seen_doc_paths, exact_matches, semantic_matches, ref_i, log,
                    index_memo, all_documents, max_tokens, runs, run,
                    first_result >>

\* The scan of the candidates for the reference at ref_i.
Scan ==
    ExactScan(stack_info[ref_i], all_candidates,
              [seen |-> seen_doc_paths, exact |-> exact_matches, found |-> FALSE])

NextRef ==
    /\ ref_i' = ref_i + 1
    /\ pc' = IF ref_i + 1 > Len(stack_info) THEN "merge" ELSE "refs"

ScoredK == IF Module = "context_builder" THEN SemanticK ELSE ResolverK
UnscoredK == IF Module = "context_builder" THEN FallbackK ELSE ResolverK

\* Lines 190-235, found_exact: no query is issued for the reference.
ExactMatchFound ==
    /\ pc = "refs"
    /\ \E scan \in { Scan } :
         /\ scan.found
         /\ seen_doc_paths' = scan.seen
         /\ exact_matches' = scan.exact
    /\ log' = Append(log, "exact")
    /\ NextRef
    /\ UNCHANGED << indexer_vars, entry, trace, store, stack_info, all_candidates,
                    semantic_matches, queries, search_query, index_memo,
                    all_documents, max_tokens, result, runs, run,
                    first_result >>

\* Lines 235-262: no exact match, the scored query answers.
SemanticSearch ==
    /\ pc = "refs"
    /\ ~Scan.found
    /\ LET file_name == stack_info[ref_i].file
       IN  \E ranking \in RankingsFor(file_name, TRUE) :
             LET st == SemanticScan(Module, Scored(ranking, ScoredK),
                                    [seen |-> seen_doc_paths,
                                     semantic |-> semantic_matches])
             IN  /\ index_memo' = Remember(file_name, ranking)
                 /\ queries' = Append(queries,
                        Query("similarity_search_with_score", file_name, ScoredK))
                 /\ seen_doc_paths' = st.seen
                 /\ semantic_matches' = st.semantic
    /\ log' = Append(log, "semantic")
    /\ NextRef
    /\ UNCHANGED << indexer_vars, entry, trace, store, stack_info, all_candidates,
                    exact_matches, search_query, all_documents, max_tokens,
                    result, runs, run, first_result >>

\* Lines 263-275: the scored query raises, the fallback query answers.
FallbackSearch ==
    /\ pc = "refs"
    /\ ~Scan.found
    /\ LET file_name == stack_info[ref_i].file
       IN  \E ranking \in RankingsFor(file_name, FALSE) :
             LET st == FallbackScan(Module, Unscored(ranking, UnscoredK),
                                    [seen |-> seen_doc_paths,
                                     semantic |-> semantic_matches])
             IN  /\ index_memo' = Remember(file_name, ranking)
                 /\ queries' = queries \o
                        << Query("similarity_search_with_score", file_name, ScoredK),
                           Query("similarity_search", file_name, UnscoredK) >>
                 /\ seen_doc_paths' = st.seen
                 /\ semantic_matches' = st.semantic
    /\ log' = Append(log, "fallback")
    /\ NextRef
    /\ UNCHANGED << indexer_vars, entry, trace, store, stack_info, all_candidates,
                    exact_matches, search_query, all_documents, max_tokens,
                    result, runs, run, first_result >>

\* Line 266 is inside the except block: a failure of the fallback query
\* propagates out of get_relevant_docs.
FallbackRaises ==
    /\ pc = "refs"
    /\ ~Scan.found
    /\ LET file_name == stack_info[ref_i].file
       IN  queries' = queries \o
               << Query("similarity_search_with_score", file_name, ScoredK),
                  Query("similarity_search", file_name, UnscoredK) >>
    /\ log' = Append(log, "raised")
    /\ pc' = "raised"
    /\ result' = [kind |-> "raised", blocks |-> << >>]
    /\ UNCHANGED << indexer_vars, entry, trace, store, stack_info, all_candidates,
                    seen_doc_paths, exact_matches, semantic_matches, ref_i,
                    search_query, index_memo, all_documents, max_tokens, runs,
                    run, first_result >>

\* Lines 277-296, and resolver.py lines 203 and 405-407.
MergeMatches ==
    /\ pc = "merge"
    /\ all_documents' = IF Module = "context_builder"
                        THEN MergeAndBound(exact_matches, semantic_matches)
                        ELSE ResolverMerge(exact_matches, semantic_matches)
    /\ IF entry = "resolve_error" /\ all_documents' = << >>
       THEN /\ result' = [kind |-> "no_documents", blocks |-> << >>]
            /\ pc' = "done"
       ELSE /\ result' = result
            /\ pc' = "build"
    /\ UNCHANGED << indexer_vars, entry, trace, store, stack_info, all_candidates,
                    seen_doc_paths, exact_matches, semantic_matches, ref_i, log,
                    queries, search_query, index_memo, max_tokens, runs,
                    run, first_result >>

\* The budgets a caller may pass.
BudgetsOf(e) ==
    IF e = "resolve_error" THEN { ResolveErrorTokens }
    ELSE IF e = "build_context" THEN 0..MaxTokens
    ELSE Budgets

\* build_context, the whole call.
BuildContext ==
    /\ pc = "build"
    /\ \E tokens \in BudgetsOf(entry) :
         /\ run = 1 \/ tokens = max_tokens
         /\ max_tokens' = tokens
         /\ result' = [kind |-> "context",
                       blocks |-> build_context(Module, all_documents,
                                                stack_info, tokens)]
    /\ pc' = "done"
    /\ UNCHANGED << indexer_vars, entry, trace, store, stack_info, all_candidates,
                    seen_doc_paths, exact_matches, semantic_matches, ref_i, log,
                    queries, search_query, index_memo, all_documents, runs,
                    run, first_result >>

Next ==
    \/ ParseStackTrace
    \/ BatchQuery
    \/ BatchQueryFails
    \/ ExactMatchFound
    \/ SemanticSearch
    \/ FallbackSearch
    \/ FallbackRaises
    \/ MergeMatches
    \/ BuildContext

Spec == Init /\ [][Next]_vars

----------------------------------------------------------------------------
(* build_context called directly, on any list of documents.                *)

InitBuild ==
    /\ IndexerIdle
    /\ entry = "build_context"
    /\ trace = << >>
    /\ store = << >>
    /\ pc = "build"
    /\ stack_info \in BuildInfos
    /\ all_documents \in SeqsUpTo(BuildDocs, MaxInputDocs)
    /\ all_candidates = << >>
    /\ seen_doc_paths = {}
    /\ exact_matches = << >>
    /\ semantic_matches = << >>
    /\ ref_i = 1
    /\ log = << >>
    /\ queries = << >>
    /\ search_query = << >>
    /\ result = NoResult
    /\ index_memo = << >>
    /\ max_tokens = 0
    /\ runs = 1
    /\ run = 1
    /\ first_result = NoResult

NextBuild == BuildContext

SpecBuild == InitBuild /\ [][NextBuild]_vars

----------------------------------------------------------------------------
(* Two runs of parse, resolve and assemble, one after the other, on the    *)
(* same trace, the same index and the same budget.  No query fails.        *)

InitRuns ==
    /\ IndexerIdle
    /\ entry \in {"context_builder", "resolve_error"}
    /\ trace \in RunTraces
    /\ store \in RunStores
    /\ pc = "parse"
    /\ Fresh
    /\ index_memo = << >>
    /\ max_tokens = IF entry = "resolve_error" THEN ResolveErrorTokens ELSE 0
    /\ runs = 2
    /\ run = 1
    /\ first_result = NoResult

\* The second run starts: the first result is kept for the comparison.
Rerun ==
    /\ pc = "done"
    /\ run < runs
    /\ first_result' = result
    /\ run' = run + 1
    /\ pc' = "parse"
    /\ stack_info' = << >>
    /\ all_candidates' = << >>
    /\ seen_doc_paths' = {}
    /\ exact_matches' = << >>
    /\ semantic_matches' = << >>
    /\ ref_i' = 1
    /\ log' = << >>
    /\ queries' = << >>
    /\ search_query' = << >>
    /\ all_documents' = << >>
    /\ result' = NoResult
    /\ UNCHANGED << indexer_vars, entry, trace, store, index_memo, max_tokens, runs >>

NextRuns ==
    \/ ParseStackTrace
    \/ BatchQuery
    \/ ExactMatchFound
    \/ SemanticSearch
    \/ MergeMatches
    \/ BuildContext
    \/ Rerun

SpecRuns == InitRuns /\ [][NextRuns]_vars

----------------------------------------------------------------------------
(* parse_stack_trace called directly, on traces in which a file name may   *)
(* come back: with another directory, another line, no line, or quoted.    *)
(* entry names the module: "parse_stack_trace" is the function of          *)
(* context_builder.py, "resolver.parse_stack_trace" the one of             *)
(* src/resolver.py.                                                        *)

MaxTraceLen == 3    \* longest trace of a direct parse_stack_trace call

PathT == << "t", "/", "a" >> \o Py                      \* t/a.py

FrameAUnknown == Frame(TraceA, NoneLine, FALSE)     \* File "/r/s/a.py", line ?
FrameT  == Frame(PathT, 3, FALSE)                   \* File "t/a.py", line 3
QuotedN == Quoted(PathN)                            \* "n.md"

FrameBZero == Frame(TraceB, 0, FALSE)               \* File "b.py", line 0

ParseItems == { FrameA, FrameAUnknown, FrameT, FrameB, FrameBZero, FrameX,
                QuotedA, QuotedN, Text }

InitParse ==
    /\ IndexerIdle
    /\ entry \in {"parse_stack_trace", "resolver.parse_stack_trace"}
    /\ trace \in SeqsUpTo(ParseItems, MaxTraceLen)
    /\ store = << >>
    /\ pc = "parse"
    /\ Fresh
    /\ index_memo = << >>
    /\ max_tokens = 0
    /\ runs = 1
    /\ run = 1
    /\ first_result = NoResult

\* parse_stack_trace, the whole call.
ParseOnly ==
    /\ pc = "parse"
    /\ stack_info' = IF entry = "parse_stack_trace"
                     THEN parse_stack_trace(trace)
                     ELSE resolver_parse_stack_trace(trace)
    /\ pc' = "done"
    /\ UNCHANGED << indexer_vars, entry, trace, store, all_candidates, seen_doc_paths,
                    exact_matches, semantic_matches, ref_i, log, queries,
                    search_query, index_memo, all_documents, max_tokens, result,
                    runs, run, first_result >>

NextParse == ParseOnly

SpecParse == InitParse /\ [][NextParse]_vars

----------------------------------------------------------------------------
(* build_context called directly on a file without chunk bounds and on     *)
(* references that may name it several times, each with a line of its own. *)

MaxLineRefs == 2    \* most references of a direct call with requested lines

\* A reference as the docstring of get_relevant_docs describes it.
Reference(path, line) ==
    [ file |-> PathName(path), line |-> line, full_path |-> path,
      file_path |-> PathStr(path) ]

\* Two lines in one window, one far from them, one past the end of DocS.
RequestedLines == { 3, 10, 60, 90, 95 }
LineReferences == { Reference(TraceA, n) : n \in RequestedLines }

DocS == NameOnlyDoc(9, << "a" >> \o Py, 70, 1)     \* 70 lines of 1 character

InitLines ==
    /\ IndexerIdle
    /\ entry = "build_context_lines"
    /\ trace = << >>
    /\ store = << >>
    /\ pc = "build"
    /\ stack_info \in SeqsUpTo(LineReferences, MaxLineRefs)
    /\ all_documents \in { << DocS >>, << DocP >>, << DocS, DocB >>,
                            << DocB, DocS >>, << DocA1 >>, << DocP, DocS >> }
    /\ all_candidates = << >>
    /\ seen_doc_paths = {}
    /\ exact_matches = << >>
    /\ semantic_matches = << >>
    /\ ref_i = 1
    /\ log = << >>
    /\ queries = << >>
    /\ search_query = << >>
    /\ result = NoResult
    /\ index_memo = << >>
    /\ max_tokens = 0
    /\ runs = 1
    /\ run = 1
    /\ first_result = NoResult

NextLines == BuildContext

SpecLines == InitLines /\ [][NextLines]_vars

----------------------------------------------------------------------------
(* The indexer.  entry "split_into_chunks" is a call of the function with  *)
(* a chunk size and an overlap below it, entry "extract_python_files" the  *)
(* indexing of one file, with CHUNK_SIZE and CHUNK_OVERLAP.                *)

MaxChunkSize == 4     \* largest chunk_size of a direct call
MaxFileLines == 12    \* longest content of a direct call

\* The lengths of the indexed file, around one and several chunks.
IndexedSizes == { 1, 3, 499, 500, 501, 950, 951, 1401 }

InitIndex ==
    /\ entry \in {"split_into_chunks", "extract_python_files"}
    /\ IF entry = "split_into_chunks"
       THEN /\ chunk_size \in 1..MaxChunkSize
            /\ chunk_overlap \in 0..(chunk_size - 1)
            /\ total_lines \in 1..MaxFileLines
       ELSE /\ chunk_size = CHUNK_SIZE
            /\ chunk_overlap = CHUNK_OVERLAP
            /\ total_lines \in IndexedSizes
    /\ start = 0
    /\ chunks = << >>
    /\ documents = << >>
    /\ pc = "split"
    /\ trace = << >>
    /\ store = << >>
    /\ Fresh
    /\ index_memo = << >>
    /\ max_tokens = 0
    /\ runs = 1
    /\ run = 1
    /\ first_result = NoResult

\* What the indexer leaves alone.
retrieval_vars ==
    << entry, trace, store, stack_info, all_candidates, seen_doc_paths,
       exact_matches, semantic_matches, ref_i, log, queries, search_query,
       index_memo, all_documents, max_tokens, result, runs, run, first_result >>

\* Where split_into_chunks returns to.
AfterSplit == IF entry = "split_into_chunks" THEN "done" ELSE "documents"

\* Lines 62-67: a content of at most chunk_size lines is one chunk.
SplitWhole ==
    /\ pc = "split"
    /\ total_lines <= chunk_size
    /\ chunks' = << << 1, total_lines >> >>
    /\ pc' = AfterSplit
    /\ UNCHANGED << total_lines, chunk_size, chunk_overlap, start, documents,
                    retrieval_vars >>

\* Lines 69-70: a longer content enters the loop.
SplitLoop ==
    /\ pc = "split"
    /\ total_lines > chunk_size
    /\ chunks' = << >>
    /\ start' = 0
    /\ pc' = "loop"
    /\ UNCHANGED << total_lines, chunk_size, chunk_overlap, documents,
                    retrieval_vars >>

\* Lines 72-87: the test of the loop and one iteration of it.
SplitStep ==
    /\ pc = "loop"
    /\ IF start < total_lines
       THEN LET end == ChunkEnd(start, chunk_size, total_lines)
            IN  /\ chunks' = Append(chunks, << start + 1, end >>)
                /\ IF end >= total_lines
                   THEN start' = start /\ pc' = AfterSplit
                   ELSE start' = NextStart(end, chunk_overlap) /\ pc' = "loop"
       ELSE UNCHANGED << chunks, start >> /\ pc' = AfterSplit
    /\ UNCHANGED << total_lines, chunk_size, chunk_overlap, documents,
                    retrieval_vars >>

\* Lines 148-170: one document per chunk.
MakeDocuments ==
    /\ pc = "documents"
    /\ documents' = ChunkDocuments(PathA, chunks, 10)
    /\ pc' = "done"
    /\ UNCHANGED << total_lines, chunk_size, chunk_overlap, start, chunks,
                    retrieval_vars >>

NextIndex == SplitWhole \/ SplitLoop \/ SplitStep \/ MakeDocuments

SpecIndex == InitIndex /\ [][NextIndex]_vars

\* The interpreter goes on running the call.
SpecIndexFair == SpecIndex /\ WF_vars(NextIndex)

----------------------------------------------------------------------------
(* The properties.                                                         *)

\* get_relevant_docs has returned all_documents.
Returned == pc \in {"build", "done"} /\ result.kind # "no_references"

\* build_context has returned.
Built == pc = "done" /\ result.kind = "context"

\* Is the document one of the recorded exact matches?
IsExact(doc) == \E m \in 1..Len(exact_matches) : exact_matches[m][1] = doc

\* The matches in the order in which they were recorded, and their scores.
Recorded == exact_matches \o semantic_matches
PosOf(doc) == CHOOSE p \in 1..Len(Recorded) : Recorded[p][1] = doc
ScoreOf(doc) == Recorded[PosOf(doc)][2]
SameScore(a, b) == ~ScoreLess(a, b) /\ ~ScoreLess(b, a)

\* How many recorded matches sorted() puts before the one at p.
RankOf(p) ==
    Cardinality({ q \in 1..Len(Recorded) :
                    \/ ScoreLess(Recorded[p][2], Recorded[q][2])
                    \/ SameScore(Recorded[p][2], Recorded[q][2]) /\ q < p })

\* The documents build_context renders and the lengths of their blocks.
Rendered ==
    SelectSeq(all_documents,
              LAMBDA d : ~(Module = "context_builder"
                            /\ SkippedAsService(d, stack_info)))
BlockLens(rendered) ==
    [i \in 1..Len(rendered) |-> RenderBlock(rendered[i], stack_info).len]
MaxChars == max_tokens * CharsPerToken
LastBlock == result.blocks[Len(result.blocks)]

\* How many of the leading blocks fit the budget together.
Fitting(lens) ==
    CHOOSE n \in 0..Len(lens) :
        /\ SumSeq(SubSeq(lens, 1, n)) <= MaxChars
        /\ n < Len(lens) => SumSeq(SubSeq(lens, 1, n + 1)) > MaxChars

\* What is left of the budget after the first n blocks.
Remaining(lens, n) == MaxChars - SumSeq(SubSeq(lens, 1, n))

\* The block after the first n is the last of the result, cut.
CutAppended(n) ==
    /\ Len(result.blocks) = n + 1
    /\ LastBlock.truncated

\* The block after the first n is appended cut to the remaining budget less
\* the reserve, or dropped when no more than MinRemaining characters remain.
CutOrDropped(rendered, remaining, n) ==
    IF remaining > MinRemaining
    THEN /\ CutAppended(n)
         /\ LastBlock.doc = rendered[n + 1]
         /\ LastBlock.len = remaining - CutReserve + MarkerLen
         /\ \A i \in 1..n : ~result.blocks[i].truncated
    ELSE /\ Len(result.blocks) = n
         /\ \A i \in 1..n : ~result.blocks[i].truncated

CutNeverDroppedAt(lens, n) == n < Len(lens) => CutAppended(n)
CutNeverDroppedFor(lens) == CutNeverDroppedAt(lens, Fitting(lens))
CutOrDroppedAt(rendered, lens, n) ==
    n < Len(lens) => CutOrDropped(rendered, Remaining(lens, n), n)
CutOrDroppedFor(rendered, lens) == CutOrDroppedAt(rendered, lens, Fitting(lens))
CutOrDroppedIn(rendered) == CutOrDroppedFor(rendered, BlockLens(rendered))
CutAfterFittedAt(lens, n) == 1 <= n /\ n < Len(lens) /\ CutAppended(n)
CutAfterFitted(lens) == CutAfterFittedAt(lens, Fitting(lens))

\* C1: the string build_context returns, the newlines between its blocks and
\* the truncation marker counted, is at most max_tokens * 4 characters long.
C1_LengthWithinBudget == Built => ResultLen(result.blocks) <= MaxChars

C3_QueryFailureNotRaised ==
    (\E i \in 1..Len(log) : log[i] \in {"fallback", "raised"}) =>
        /\ pc # "raised"
        /\ pc \in {"merge", "build", "done"} => Len(log) = Len(stack_info)

\* C4: resolve_error returns the "nothing extracted" sentence exactly when the
\* parser yields no reference, and then no query was issued; it returns the
\* "no documents" sentence exactly when references were found and
\* get_relevant_docs returned nothing; in both cases no context is built and
\* nothing is raised.
C4_Sentinels ==
    entry = "resolve_error" =>
        /\ result.kind = "no_references" =>
               /\ parse_stack_trace(trace) = << >>
               /\ queries = << >>
               /\ result.blocks = << >>
               /\ pc = "done"
        /\ pc \notin {"parse"} /\ parse_stack_trace(trace) = << >> =>
               /\ result.kind = "no_references"
               /\ queries = << >>
        /\ result.kind = "no_documents" =>
               /\ stack_info # << >>
               /\ all_documents = << >>
               /\ result.blocks = << >>
               /\ pc = "done"
        /\ pc \in {"build", "done"} /\ stack_info # << >>
             /\ all_documents = << >> => result.kind = "no_documents"
        /\ result.kind = "context" =>
               stack_info # << >> /\ all_documents # << >>

\* References were found, queries were issued, no document came back.
C4_Witness ==
    /\ entry = "resolve_error"
    /\ result.kind = "no_documents"
    /\ stack_info # << >>
    /\ queries # << >>

\* C5: no two documents get_relevant_docs returns share a path key.
C5_DistinctPathKeys ==
    Returned =>
        \A i, j \in 1..Len(all_documents) :
            i # j => DocId(all_documents[i]) # DocId(all_documents[j])

\* A scored query and a fallback query both answered with the two documents
\* of the store: the second answer held only path keys seen before.
C5_Witness ==
    /\ Returned
    /\ Len(store) = 2
    /\ Len(all_documents) = 2
    /\ \E i, j \in 1..Len(log) : log[i] = "semantic" /\ log[j] = "fallback"

\* C6: a candidate that passes the exact-path test of some reference is
\* recorded as an exact match, also when a query for an earlier reference
\* returned a document with its path key first.
C6_ExactTakesPriority ==
    pc = "merge" =>
        \A i \in 1..Len(stack_info), c \in 1..Len(all_candidates) :
            IsExactMatch(stack_info[i], all_candidates[c]) =>
                \E m \in 1..Len(exact_matches) :
                    DocId(exact_matches[m][1]) = DocId(all_candidates[c])

\* C7: every document recorded as an exact match is returned.
C7_ExactNeverDropped ==
    Returned =>
        \A m \in 1..Len(exact_matches) :
            \E i \in 1..Len(all_documents) :
                all_documents[i] = exact_matches[m][1]

\* C8: in the returned list every exact match precedes every match that is
\* not exact.
C8_ExactFirst ==
    Returned =>
        \A i, j \in 1..Len(all_documents) :
            i < j /\ IsExact(all_documents[j]) => IsExact(all_documents[i])

\* An exact match is returned before a match of a query, which was recorded
\* for an earlier reference.
C8_Witness ==
    /\ Returned
    /\ Len(log) >= 2
    /\ log[1] \in {"semantic", "fallback"}
    /\ \E i, j \in 1..Len(all_documents) :
           i < j /\ IsExact(all_documents[i]) /\ ~IsExact(all_documents[j])

\* C9: get_relevant_docs of context_builder.py returns at most 20 documents,
\* each a recorded match, in non-increasing order of score, those of equal
\* score in the order of recording, none of them a match of a query with a
\* score below 0.1; and it returns every match among the first 20 of that
\* order that is not such a match.
C9_MergeAndBound ==
    Returned /\ Module = "context_builder" =>
        /\ Len(all_documents) <= MaxDocs
        /\ \A i \in 1..Len(all_documents) :
               /\ \E p \in 1..Len(Recorded) : Recorded[p][1] = all_documents[i]
               /\ IsExact(all_documents[i])
                    \/ ~ScoreLess(ScoreOf(all_documents[i]), RelevanceFloor)
        /\ \A i, j \in 1..Len(all_documents) :
               i < j =>
                   /\ ~ScoreLess(ScoreOf(all_documents[i]), ScoreOf(all_documents[j]))
                   /\ SameScore(ScoreOf(all_documents[i]), ScoreOf(all_documents[j]))
                        => PosOf(all_documents[i]) < PosOf(all_documents[j])
        /\ \A p \in 1..Len(Recorded) :
               /\ RankOf(p) < MaxDocs
               /\ p <= Len(exact_matches)
                    \/ ~ScoreLess(Recorded[p][2], RelevanceFloor)
               => \E i \in 1..Len(all_documents) : all_documents[i] = Recorded[p][1]

\* A match below the floor was recorded and left out, another was returned.
C9_Witness ==
    /\ Returned
    /\ Module = "context_builder"
    /\ all_documents # << >>
    /\ \E p \in 1..Len(Recorded) :
           /\ p > Len(exact_matches)
           /\ ScoreLess(Recorded[p][2], RelevanceFloor)
           /\ \A i \in 1..Len(all_documents) : all_documents[i] # Recorded[p][1]

\* C10: the second of two runs on the same trace, index and budget returns
\* what the first returned.
C10_RunsAgree == run = 2 /\ pc = "done" => result = first_result

----------------------------------------------------------------------------
(* The parser.                                                             *)

\* parse_stack_trace has returned stack_info.
Parsed == pc # "parse"

\* The items of the form  File "path", line N  or  File "path", line ?
IsFrame(it) == it.kind = "frame"
\* ... and those with a number N.
IsNumbered(it) == IsFrame(it) /\ it.line # NoneLine

\* Is there a reference with the item's line and the basename of its path?
HasReference(it) ==
    \E k \in 1..Len(stack_info) : /\ stack_info[k].file = PathName(it.path)
                                  /\ stack_info[k].line = it.line

\* Is item i the first  File "...", line ...  with its basename?
FirstOfItsName(i) ==
    \A j \in 1..(i - 1) :
        IsFrame(trace[j]) => PathName(trace[j].path) # PathName(trace[i].path)

\* C11: every  File "path", line N  that is the first  File "...", line ...
\* of its basename in the trace gives a reference whose line is N and whose
\* file is the basename of path.
C11_FirstOccurrenceParsed ==
    Parsed =>
        \A i \in 1..Len(trace) :
            IsNumbered(trace[i]) /\ FirstOfItsName(i) => HasReference(trace[i])

\* C11, as stated: a trace with some  File "path", line N  gives a reference
\* with the line and the basename of one of them at least.
C11_SomeOccurrenceParsed ==
    Parsed /\ (\E i \in 1..Len(trace) : IsNumbered(trace[i])) =>
        \E i \in 1..Len(trace) : IsNumbered(trace[i]) /\ HasReference(trace[i])

\* Two numbered occurrences of one basename with different lines: the first
\* has its reference, the second has none.
C11_Witness ==
    /\ Parsed
    /\ \E i, j \in 1..Len(trace) :
         /\ i < j
         /\ IsNumbered(trace[i]) /\ IsNumbered(trace[j])
         /\ FirstOfItsName(i)
         /\ PathName(trace[i].path) = PathName(trace[j].path)
         /\ trace[i].line # trace[j].line
         /\ HasReference(trace[i])
         /\ ~HasReference(trace[j])

\* The occurrences the parser reads file names from: the  File "...", line ...
\* items when there is one, the quoted .py paths otherwise.
Occurrences ==
    IF \E i \in 1..Len(trace) : IsFrame(trace[i])
    THEN { i \in 1..Len(trace) : IsFrame(trace[i]) }
    ELSE { i \in 1..Len(trace) :
             /\ trace[i].kind = "quoted"
             /\ Len(trace[i].path) > 3
             /\ EndsWith(trace[i].path, Py) }

\* The first occurrence of a basename.
FirstOccurrence(name) ==
    CHOOSE i \in Occurrences :
        /\ PathName(trace[i].path) = name
        /\ \A j \in Occurrences : PathName(trace[j].path) = name => i <= j

OccurringNames == { PathName(trace[i].path) : i \in Occurrences }

\* C12: the references have pairwise distinct files, one for each basename
\* occurring in the trace; each carries the line and, where references have
\* one, the path of the first occurrence of its basename, and the
\* references stand in the order of these first occurrences.
C12_OnePerBasename ==
    Parsed =>
        /\ \A k, l \in 1..Len(stack_info) :
               stack_info[k].file = stack_info[l].file => k = l
        /\ { stack_info[k].file : k \in 1..Len(stack_info) } = OccurringNames
        /\ \A k \in 1..Len(stack_info) :
               LET i == FirstOccurrence(stack_info[k].file)
               IN  /\ stack_info[k].line = trace[i].line
                   /\ "full_path" \in DOMAIN stack_info[k]
                          => stack_info[k].full_path = trace[i].path
        /\ \A k, l \in 1..Len(stack_info) :
               k < l => FirstOccurrence(stack_info[k].file)
                            < FirstOccurrence(stack_info[l].file)

----------------------------------------------------------------------------
(* Resolution and rendering of one reference.                             *)

\* The documents of the index for a file name.
DocumentsFor(file) ==
    { d \in 1..Len(store) : \/ PathName(MetaPath(store[d])) = file
                            \/ PathName(RelativePath(store[d])) = file }

\* Is the document a chunk whose line range holds line n?
ChunkHolding(doc, n) ==
    /\ "chunk_index" \in DOMAIN doc.metadata
    /\ Get(doc.metadata, "start_line", NoneLine) # NoneLine
    /\ Get(doc.metadata, "start_line", NoneLine) <= n
    /\ n <= Get(doc.metadata, "end_line", NoneLine)

\* The blocks of the result that render the document.
BlocksOf(doc) ==
    { b \in 1..Len(result.blocks) : result.blocks[b].doc = doc }

\* The whole chunk, numbered from start_line, with just line n marked and
\* the position of the chunk in the header.
WholeChunkMarkedAt(block, n) ==
    /\ block.mode = "chunk_marked"
    /\ ~block.truncated
    /\ NumberedLines(block) =
           Get(block.doc.metadata, "start_line", NoneLine)
               ..Get(block.doc.metadata, "end_line", NoneLine)
    /\ MarkedLines(block) = {n}

\* C13: when the only document of the index for the file of a reference
\* with line N is a chunk holding N, it is recorded as an exact match with
\* score 1.0 and returned, and the context renders it as the whole chunk
\* numbered from start_line, line N alone marked.
C13_ChunkOfKnownLine ==
    \A k \in 1..Len(stack_info) : \A d \in 1..Len(store) :
        ( /\ stack_info[k].line # NoneLine
          /\ DocumentsFor(stack_info[k].file) = {d}
          /\ ChunkHolding(store[d], stack_info[k].line) )
        => /\ Returned =>
                /\ \E m \in 1..Len(exact_matches) :
                       exact_matches[m] = << store[d], ExactScore >>
                /\ \E p \in 1..Len(all_documents) : all_documents[p] = store[d]
           /\ Built /\ max_tokens > 0 =>
                \E b \in BlocksOf(store[d]) :
                    \/ result.blocks[b].truncated
                    \/ WholeChunkMarkedAt(result.blocks[b], stack_info[k].line)

\* No batched candidate passes the exact test for reference k.
NoExactCandidate(k) ==
    \A c \in 1..Len(all_candidates) :
        ~IsExactMatch(stack_info[k], all_candidates[c])

\* The answer the index gave to the scored query of reference k.
ScoredAnswer(k) == Scored(index_memo[stack_info[k].file], ScoredK)

\* The scored query of reference k was answered, every document of the
\* answer farther than the threshold.
FarOnly(k) ==
    /\ k <= Len(log)
    /\ log[k] = "semantic"
    /\ stack_info[k].file \in DOMAIN index_memo
    /\ \A r \in 1..Len(ScoredAnswer(k)) : ScoredAnswer(k)[r][2] > DistanceThreshold

\* Is the document one of the returned ones?
InAllDocuments(doc) ==
    \E p \in 1..Len(all_documents) : all_documents[p] = doc

\* The document is owed to another reference than k: it is an exact match
\* of it, or an accepted result of its scored query.
OwedToOther(doc, k) ==
    \E l \in 1..Len(stack_info) :
        /\ l # k
        /\ \/ IsExactMatch(stack_info[l], doc)
           \/ /\ l <= Len(log) /\ log[l] = "semantic"
              /\ stack_info[l].file \in DOMAIN index_memo
              /\ \E r \in 1..Len(ScoredAnswer(l)) :
                     /\ ScoredAnswer(l)[r][1] = doc
                     /\ ScoredAnswer(l)[r][2] <= DistanceThreshold

\* C14: a reference without an exact candidate gets a scored query; when
\* every document of the answer is farther than 1.5, none of them is
\* returned for this reference, and a reference with an exact candidate
\* still has an exact match of it returned.
C14_FarResultsDiscarded ==
    Returned =>
        \A k \in 1..Len(stack_info) :
            NoExactCandidate(k) =>
                /\ log[k] \in {"semantic", "fallback"}
                /\ FarOnly(k) =>
                     /\ \A r \in 1..Len(ScoredAnswer(k)) :
                            InAllDocuments(ScoredAnswer(k)[r][1])
                                => OwedToOther(ScoredAnswer(k)[r][1], k)
                     /\ \A l \in 1..Len(stack_info) :
                            (\E c \in 1..Len(all_candidates) :
                                 IsExactMatch(stack_info[l], all_candidates[c]))
                            => \E p \in 1..Len(all_documents) :
                                   IsExactMatch(stack_info[l], all_documents[p])

\* Does reference k name the document: by the exact test of the resolver or
\* by the name comparisons of build_context?
Names(k, doc) ==
    \/ IsExactMatch(stack_info[k], doc)
    \/ stack_info[k].file \in { PathName(MetaPath(doc)), PathName(RelativePath(doc)) }
    \/ PathName(stack_info[k].full_path)
           \in { PathName(MetaPath(doc)), PathName(RelativePath(doc)) }

\* The document is named by references without a line only.
NamedWithoutLine(doc) ==
    /\ \E k \in 1..Len(stack_info) : Names(k, doc)
    /\ \A k \in 1..Len(stack_info) : Names(k, doc) => stack_info[k].line = NoneLine

\* Has the document the bounds of a chunk?
ChunkBounded(doc) ==
    /\ "chunk_index" \in DOMAIN doc.metadata
    /\ Truthy(Get(doc.metadata, "start_line", NoneLine))
    /\ Truthy(Get(doc.metadata, "end_line", NoneLine))

\* Reference k is handled when no key of its candidates is recorded yet:
\* the references before it found exact matches, none of them this one.
FreshFor(k, doc) ==
    \A l \in 1..(k - 1) : log[l] = "exact" /\ ~IsExactMatch(stack_info[l], doc)

HasExactCandidate(k) ==
    \E c \in 1..Len(all_candidates) :
        IsExactMatch(stack_info[k], all_candidates[c])

\* C16: a reference for which some batched candidate passes the exact test
\* is handled without any query, the candidate already recorded for an
\* earlier reference or not.
C16_HitMeansResolved ==
    \A k \in 1..Len(log) : HasExactCandidate(k) => log[k] = "exact"

----------------------------------------------------------------------------
(* The scores of the semantic matches.                                     *)

\* The trace names one file and its scored query has answered: every
\* semantic match is a document of ScoredAnswer(1).
OneScoredQuery ==
    /\ Module = "context_builder"
    /\ Len(stack_info) = 1
    /\ log = << "semantic" >>
    /\ stack_info[1].file \in DOMAIN index_memo

\* The distance at which the answer holds the document.
DistanceOf(doc) ==
    LET r == CHOOSE r \in 1..Len(ScoredAnswer(1)) : ScoredAnswer(1)[r][1] = doc
    IN  ScoredAnswer(1)[r][2]

\* priority / (1 + distance), the distance and the priority in tenths.
WeightedInverse(distance, priority) == << priority, 10 + distance >>

\* C17: an accepted result at distance d, 0 <= d <= 1.5, is recorded with
\* the score priority / (1 + d), and of two accepted results of the same
\* priority the nearer has no lower score.
C17_ScoreFromDistance ==
    OneScoredQuery =>
        /\ \A m \in 1..Len(semantic_matches) :
               SameScore(semantic_matches[m][2],
                         WeightedInverse(DistanceOf(semantic_matches[m][1]),
                             get_file_priority(DocId(semantic_matches[m][1]))))
        /\ \A m, n \in 1..Len(semantic_matches) :
               ( /\ get_file_priority(DocId(semantic_matches[m][1]))
                      = get_file_priority(DocId(semantic_matches[n][1]))
                 /\ DistanceOf(semantic_matches[m][1])
                      < DistanceOf(semantic_matches[n][1]) )
               => ~ScoreLess(semantic_matches[m][2], semantic_matches[n][2])

\* The trace names one file, its scored query has failed and the fallback
\* query has answered.
OneFallbackQuery ==
    /\ Len(stack_info) = 1
    /\ log = << "fallback" >>
    /\ stack_info[1].file \in DOMAIN index_memo

\* The answer the index gave to the fallback query.
FallbackAnswer == Unscored(index_memo[stack_info[1].file], UnscoredK)

\* C18: every document of the answer to the fallback query is recorded, all
\* with one score, and is in the returned list, after every exact match.
C18_FallbackKept ==
    OneFallbackQuery =>
        /\ \A r \in 1..Len(FallbackAnswer) :
               \/ \E q \in 1..(r - 1) :
                      DocId(FallbackAnswer[q]) = DocId(FallbackAnswer[r])
               \/ /\ \E m \in 1..Len(semantic_matches) :
                         semantic_matches[m][1] = FallbackAnswer[r]
                  /\ Returned =>
                         /\ InAllDocuments(FallbackAnswer[r])
                         /\ \A p, q \in 1..Len(all_documents) :
                                ( /\ all_documents[p] = FallbackAnswer[r]
                                  /\ IsExact(all_documents[q]) ) => q < p
        /\ \A m, n \in 1..Len(semantic_matches) :
               SameScore(semantic_matches[m][2], semantic_matches[n][2])

----------------------------------------------------------------------------
(* The marked lines of the windows.                                        *)

\* The requested lines that a block shows.
RequestedShown(block) ==
    { n \in NumberedLines(block) :
        \E i \in 1..Len(block.relevant_lines) : block.relevant_lines[i] = n }

\* C19: in the windows rendered for a document without chunk bounds the
\* marked lines are the requested lines that the windows show, also when
\* several of them share one merged window.
C19_RequestedLinesMarked ==
    Built =>
        \A b \in 1..Len(result.blocks) :
            result.blocks[b].mode = "windows" /\ ~result.blocks[b].truncated
                => MarkedLines(result.blocks[b]) = RequestedShown(result.blocks[b])

----------------------------------------------------------------------------
(* The blocks after one that does not fit.                                 *)

\* The result is the blocks of the first f rendered documents, whole, and
\* at most the block of the next one, cut.
PrefixUpTo(rendered, lens, f) ==
    /\ Len(result.blocks) \in { f, Min(f + 1, Len(rendered)) }
    /\ \A b \in 1..Len(result.blocks) : result.blocks[b].doc = rendered[b]
    /\ \A b \in 1..Min(f, Len(result.blocks)) :
           ~result.blocks[b].truncated /\ result.blocks[b].len = lens[b]
    /\ Len(result.blocks) = f + 1 => LastBlock.truncated
PrefixFor(rendered, lens) == PrefixUpTo(rendered, lens, Fitting(lens))

\* C20: the result holds the blocks of the rendered documents before the
\* first one whose block does not fit, in their order and whole, then at most
\* that block, cut; no block of a later document follows.
C20_NothingAfterMisfit == Built => PrefixFor(Rendered, BlockLens(Rendered))

\* A block did not fit, a later one is small enough for what remained.
LaterWouldFit(lens, f) ==
    /\ f + 1 < Len(lens)
    /\ \E j \in (f + 2)..Len(lens) : lens[j] <= Remaining(lens, f)
    /\ Len(result.blocks) <= f + 1
C20_Witness ==
    /\ Built
    /\ LaterWouldFit(BlockLens(Rendered), Fitting(BlockLens(Rendered)))

----------------------------------------------------------------------------
(* A block that fits exactly.                                              *)

\* The first n blocks fill the budget to the last character.
FillsExactly(lens, n) == SumSeq(SubSeq(lens, 1, n)) = MaxChars

\* The first n blocks are the result, each whole.
WholeUpTo(lens, n) ==
    /\ Len(result.blocks) = n
    /\ \A b \in 1..n : ~result.blocks[b].truncated /\ result.blocks[b].len = lens[b]
ExactFitsWhole(lens) ==
    \A n \in 1..Len(lens) : FillsExactly(lens, n) => WholeUpTo(lens, n)

\* C21: a block as long as what remains of the budget is appended whole,
\* without the truncation marker; the loop goes on, and finds no room for
\* the block of any later document.
C21_ExactFitAppended == Built => ExactFitsWhole(BlockLens(Rendered))

\* The second block is as long as what the first left, and a third
\* document follows.
ExactFitThenMore(lens) ==
    /\ Len(lens) >= 3
    /\ FillsExactly(lens, 2)
    /\ WholeUpTo(lens, 2)
C21_Witness == Built /\ ExactFitThenMore(BlockLens(Rendered))

----------------------------------------------------------------------------
(* The relevant lines of a chunk.                                          *)

\* The lines requested for the file of the document.
RequestedFor(doc) ==
    { stack_info[k].line : k \in { j \in 1..Len(stack_info) :
        /\ stack_info[j].line # NoneLine
        /\ \/ stack_info[j].file
                 \in { PathName(MetaPath(doc)), PathName(RelativePath(doc)) }
           \/ PathName(stack_info[j].full_path)
                 \in { PathName(MetaPath(doc)), PathName(RelativePath(doc)) } } }

\* Those of them inside the line range of the chunk.
RequestedInChunk(doc) ==
    { n \in RequestedFor(doc) : ChunkHolding(doc, n) }

ListedLines(block) ==
    { block.relevant_lines[i] : i \in 1..Len(block.relevant_lines) }

\* The block of a chunk with requested lines: found by similarity when none
\* is in its range, else marked at the ones in its range, those alone.
ChunkBlockAsRequested(block) ==
    IF RequestedInChunk(block.doc) = {}
    THEN /\ block.mode = "chunk_similar"
         /\ MarkedLines(block) = {}
         /\ ShownLines(block) = block.doc.page_content.nlines
    ELSE /\ block.mode = "chunk_marked"
         /\ ListedLines(block) = RequestedInChunk(block.doc)
         /\ MarkedLines(block) = RequestedInChunk(block.doc)

\* C22: a chunk whose file has requested lines, none of them in its range,
\* is rendered whole as found by similarity, nothing marked and no window
\* cut; with a requested line in its range, the header lists and the block
\* marks the lines inside the range only.
C22_ChunkRangeFilter ==
    Built =>
        \A b \in 1..Len(result.blocks) :
            ( /\ ChunkBounded(result.blocks[b].doc)
              /\ RequestedFor(result.blocks[b].doc) # {} )
            => ChunkBlockAsRequested(result.blocks[b])

\* A chunk with one requested line inside and one outside its range.
C22_Witness ==
    /\ Built
    /\ \E b \in 1..Len(result.blocks) :
         /\ ChunkBounded(result.blocks[b].doc)
         /\ ~result.blocks[b].truncated
         /\ RequestedInChunk(result.blocks[b].doc) # {}
         /\ RequestedInChunk(result.blocks[b].doc) # RequestedFor(result.blocks[b].doc)
         /\ result.blocks[b].mode = "chunk_marked"

----------------------------------------------------------------------------
(* The lines of the references.                                            *)

\* The references of a call of parse_stack_trace of context_builder.py.
ParsedByContextBuilder == Parsed /\ entry = "parse_stack_trace"

\* Reference k has the path of a match of the primary pattern.
FromPrimary(k) ==
    \E i \in 1..Len(trace) : /\ IsFrame(trace[i])
                             /\ trace[i].path = stack_info[k].full_path
                             /\ trace[i].line = stack_info[k].line

\* The fallback pattern gave no reference of a trace with a primary match.
FallbackOnlyAlone ==
    (\E i \in 1..Len(trace) : IsFrame(trace[i])) =>
        \A k \in 1..Len(stack_info) : FromPrimary(k)

\* C23: the line of every reference that parse_stack_trace returns is
\* null or an integer of at least 1, and the references of a trace with a
\* match of the primary pattern all come from the primary pattern.
C23_LineNullOrPositive ==
    ParsedByContextBuilder =>
        /\ \A k \in 1..Len(stack_info) :
               stack_info[k].line = NoneLine \/ stack_info[k].line >= 1
        /\ FallbackOnlyAlone

----------------------------------------------------------------------------
(* The semantic matches.                                                   *)

\* The answer of every query made for a reference so far is remembered.
AnswersRemembered ==
    \A k \in 1..Len(log) :
        log[k] \in {"semantic", "fallback"}
            => stack_info[k].file \in DOMAIN index_memo

\* The scored query of reference k gave the document, within the threshold.
NearIn(doc, k) ==
    /\ log[k] = "semantic"
    /\ \E r \in 1..Len(ScoredAnswer(k)) :
           /\ ScoredAnswer(k)[r][1] = doc
           /\ ScoredAnswer(k)[r][2] <= DistanceThreshold

\* The fallback query of reference k, which has no distances, gave it.
UnscoredIn(doc, k) ==
    /\ log[k] = "fallback"
    /\ \E r \in 1..Min(UnscoredK, Len(index_memo[stack_info[k].file])) :
           Unscored(index_memo[stack_info[k].file], UnscoredK)[r] = doc

\* Some query gave the document otherwise than farther than 1.5.
WithinThreshold(doc) ==
    \E k \in 1..Len(log) : NearIn(doc, k) \/ UnscoredIn(doc, k)

IsSemantic(doc) ==
    \E m \in 1..Len(semantic_matches) : semantic_matches[m][1] = doc

\* C24: a semantic match of get_relevant_docs is never a document that
\* should_ignore_file excludes nor one that its scored query gave at a
\* distance above 1.5, and only exact and semantic matches are returned.
C24_SemanticFiltered ==
    Module = "context_builder" =>
        /\ \A m \in 1..Len(semantic_matches) :
               /\ ~should_ignore_file(DocId(semantic_matches[m][1]))
               /\ AnswersRemembered => WithinThreshold(semantic_matches[m][1])
        /\ Returned =>
               \A p \in 1..Len(all_documents) :
                   IsExact(all_documents[p]) \/ IsSemantic(all_documents[p])

\* A scored answer with a document within the threshold, returned, and a
\* document of another file beyond it, not returned.
C24_Witness ==
    /\ Returned /\ Module = "context_builder"
    /\ log = << "semantic" >>
    /\ stack_info[1].file \in DOMAIN index_memo
    /\ \E r, q \in 1..Len(ScoredAnswer(1)) :
         /\ ScoredAnswer(1)[r][2] <= DistanceThreshold
         /\ InAllDocuments(ScoredAnswer(1)[r][1])
         /\ ScoredAnswer(1)[q][2] > DistanceThreshold
         /\ ~should_ignore_file(DocId(ScoredAnswer(1)[q][1]))
         /\ ~InAllDocuments(ScoredAnswer(1)[q][1])

----------------------------------------------------------------------------
(* The documents of an indexed file.                                       *)

\* extract_python_files has made the documents of the file.
Indexed == entry = "extract_python_files" /\ pc = "done"

\* Is the value of the key None, or the key missing?
IsNull(md, key) == key \notin DOMAIN md \/ md[key] = NoneLine

\* Do the line ranges of consecutive documents overlap?
RangesOverlap(docs) ==
    \A i \in 1..(Len(docs) - 1) :
        docs[i + 1].metadata.start_line <= docs[i].metadata.end_line

\* C25: a file of at most CHUNK_SIZE lines is indexed as one document
\* whose chunk_index is null and which build_context does not take for a
\* chunk; a longer file as several documents with overlapping line ranges.
C25_SmallFileNotAChunk ==
    Indexed =>
        IF total_lines <= CHUNK_SIZE
        THEN /\ Len(documents) = 1
             /\ IsNull(documents[1].metadata, "chunk_index")
             /\ ~ChunkBounded(documents[1])
        ELSE /\ Len(documents) >= 2
             /\ RangesOverlap(documents)

----------------------------------------------------------------------------
(* The chunks of a content.                                                *)

\* split_into_chunks has returned chunks.
SplitReturned == pc \in {"documents", "done"}

\* The chunks start at line 1 and end at the last line, none is longer than
\* chunk_size, each next one starts chunk_overlap lines before the line
\* after the end of the one before it, and every line is in one of them.
Covering(cs) ==
    /\ cs # << >>
    /\ cs[1][1] = 1
    /\ cs[Len(cs)][2] = total_lines
    /\ \A i \in 1..Len(cs) : cs[i][2] - cs[i][1] + 1 <= chunk_size
    /\ \A i \in 1..(Len(cs) - 1) :
           cs[i + 1][1] = cs[i][2] + 1 - chunk_overlap
    /\ \A n \in 1..total_lines :
           \E i \in 1..Len(cs) : cs[i][1] <= n /\ n <= cs[i][2]

\* C30: with 0 <= chunk_overlap < chunk_size, split_into_chunks returns,
\* and the chunks it returns start at line 1, end at the last line, have at
\* most chunk_size lines each, start each chunk_overlap lines before the
\* line after the previous end, and hold every line of the content.
C30_SplitTerminatesCovering ==
    /\ [](SplitReturned => Covering(chunks))
    /\ <>SplitReturned

\* A content split into three chunks or more that share lines.
C30_Witness ==
    /\ entry = "split_into_chunks"
    /\ SplitReturned
    /\ Len(chunks) >= 3
    /\ chunk_overlap > 0

----------------------------------------------------------------------------
(* The files of the exact matches.                                         *)

\* The basename of the stored path of the document, in lower case.
StoredName(doc) == Lower(PathName(DocId(doc)))

\* C26: every document recorded as an exact match has the basename of a
\* reference, letter case aside; a document of another file, or without a
\* stored path, is not recorded as an exact match.
C26_ExactOnlySameFile ==
    Module = "context_builder" =>
        \A m \in 1..Len(exact_matches) :
            \E k \in 1..Len(stack_info) :
                StoredName(exact_matches[m][1]) = Lower(stack_info[k].file)

----------------------------------------------------------------------------
(* A discarded result and the references after it.                         *)

\* The scored query of reference k gave a document with this path key
\* farther than the threshold, and no semantic match has the key.
DiscardedAt(k, key) ==
    /\ log[k] = "semantic"
    /\ stack_info[k].file \in DOMAIN index_memo
    /\ \E r \in 1..Len(ScoredAnswer(k)) :
           /\ DocId(ScoredAnswer(k)[r][1]) = key
           /\ ScoredAnswer(k)[r][2] > DistanceThreshold
    /\ \A m \in 1..Len(semantic_matches) : DocId(semantic_matches[m][1]) # key

\* A candidate with the key passes the exact test of reference l.
ExactCandidateAt(l, key) ==
    \E c \in 1..Len(all_candidates) :
        /\ DocId(all_candidates[c]) = key
        /\ IsExactMatch(stack_info[l], all_candidates[c])

\* A document with the key is recorded as an exact match and returned.
ExactReturned(key) ==
    \E m \in 1..Len(exact_matches) :
        /\ DocId(exact_matches[m][1]) = key
        /\ InAllDocuments(exact_matches[m][1])

\* C27: after a result of the scored query of one reference is discarded
\* for its distance, a candidate with its path key that passes the exact
\* test of a later reference is still recorded as exact and returned.
C27_DiscardLeavesNoTrace ==
    Returned /\ Module = "context_builder" =>
        \A k, l \in 1..Len(stack_info) :
            \A c \in 1..Len(all_candidates) :
                ( /\ k < l
                  /\ DiscardedAt(k, DocId(all_candidates[c]))
                  /\ ExactCandidateAt(l, DocId(all_candidates[c])) )
                => ExactReturned(DocId(all_candidates[c]))

----------------------------------------------------------------------------
(* The chunk of a known line.                                              *)

\* The answer the index gave to the batched query.
BatchAnswer == Unscored(index_memo[search_query], BatchK)

\* The document is one of several chunks of the file of reference k, the
\* one that holds its line.
ChunkOfLine(doc, k) ==
    /\ ChunkBounded(doc)
    /\ Get(doc.metadata, "total_chunks", 1) > 1
    /\ StoredName(doc) = Lower(stack_info[k].file)
    /\ ChunkHolding(doc, stack_info[k].line)

\* C28: when the answer to the batched query holds a chunk of the file of
\* a reference with line N whose range holds N, a chunk of that file whose
\* range holds N is among the returned documents.
C28_ChunkOfLineReturned ==
    Returned /\ Module = "context_builder" /\ search_query \in DOMAIN index_memo =>
        \A k \in 1..Len(stack_info) :
            ( /\ stack_info[k].line # NoneLine
              /\ \E r \in 1..Len(BatchAnswer) : ChunkOfLine(BatchAnswer[r], k) )
            => \E p \in 1..Len(all_documents) : ChunkOfLine(all_documents[p], k)

----------------------------------------------------------------------------
(* The windows of a file.                                                  *)

\* The file lines that the window (start, end, line_num) prints.
Printed(r) == (r[1] + 1)..r[2]

\* The windows follow each other without a common line.
Ascending(ranges) ==
    \A i, j \in 1..Len(ranges) :
        i < j => \A n \in Printed(ranges[i]) : \A m \in Printed(ranges[j]) : n < m

\* Every printed line is a line of the file, at most ContextLines away from
\* a listed line.
NearListed(block) ==
    \A i \in 1..Len(block.ranges) : \A n \in Printed(block.ranges[i]) :
        /\ n \in 1..block.doc.page_content.nlines
        /\ \E l \in ListedLines(block) :
               n - l <= ContextLines /\ l - n <= ContextLines

\* C29: the windows of a block of a document that is no chunk are in
\* ascending order and pairwise disjoint, so that no line is printed twice;
\* they hold lines of the file only, each within 20 lines of a listed one.
C29_WindowsDisjointNear ==
    Built =>
        \A b \in 1..Len(result.blocks) :
            result.blocks[b].mode = "windows"
                => /\ Ascending(result.blocks[b].ranges)
                   /\ NearListed(result.blocks[b])

\* Two requested lines whose windows have lines in common and are joined.
C29_Witness ==
    /\ Built
    /\ \E b \in 1..Len(result.blocks) :
         /\ result.blocks[b].mode = "windows"
         /\ ~result.blocks[b].truncated
         /\ Cardinality(ListedLines(result.blocks[b])) = 2
         /\ Len(result.blocks[b].ranges) = 1

============================================================================
